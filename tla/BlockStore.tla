----------------------------- MODULE BlockStore -----------------------------
(***************************************************************************)
(* What users of the block cache can rely on: each sector keeps the last   *)
(* value written to it, and a read returns that value.  A request that     *)
(* fails changes nothing, or loses the sector it was for, until that is    *)
(* written again.                                                          *)
(***************************************************************************)
CONSTANTS
    Sectors,    \* the sectors of the disk
    Values,     \* what a sector can hold
    Unknown,    \* the content of a sector that is lost
    Error       \* the answer of a request that fails

VARIABLES
    content,    \* the value of each sector
    answer      \* the answer of the last request

bvars == <<content, answer>>

BInit == content \in [Sectors -> Values] /\ answer = Error

\* A lost sector reads as anything.
ReadSector(s) ==
    /\ content[s] # Unknown => answer' = content[s]
    /\ UNCHANGED content

WriteSector(s, v) == content' = [content EXCEPT ![s] = v] /\ answer' = v

Fail(s) ==
    /\ answer' = Error
    /\ content' \in {content, [content EXCEPT ![s] = Unknown]}

BNext ==
    \E s \in Sectors : ReadSector(s) \/ Fail(s) \/ \E v \in Values : WriteSector(s, v)

BSpec == BInit /\ [][BNext]_bvars

=============================================================================
