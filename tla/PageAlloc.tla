----------------------------- MODULE PageAlloc ------------------------------
(***************************************************************************)
(* What the page allocator behind allocPhyPages() and freePhyPages()       *)
(* promises: an allocation gets pages that nobody else has, it fails only  *)
(* when no run of free pages is long enough, and what is given back can be *)
(* used again, together with its neighbours.                               *)
(***************************************************************************)
EXTENDS Integers

CONSTANTS
    Frames,     \* the pages that are managed
    Sizes,      \* the numbers of pages that are asked for
    None        \* the answer of an allocation that fails

VARIABLES
    free,       \* the pages nobody has
    blocks,     \* the allocations: records of base and n
    asked,      \* how many pages the last request was for, at first 0
    answer      \* what it returned

avars == <<free, blocks, asked, answer>>

Run(b, n) == b .. b + n - 1

AInit == free = Frames /\ blocks = {} /\ asked = 0 /\ answer = None

Allocate(n) ==
    \E b \in Frames :
        /\ Run(b, n) \subseteq free
        /\ free' = free \ Run(b, n)
        /\ blocks' = blocks \cup {[base |-> b, n |-> n]}
        /\ asked' = n /\ answer' = b

Refuse(n) ==
    /\ \A b \in Frames : ~(Run(b, n) \subseteq free)
    /\ asked' = n /\ answer' = None
    /\ UNCHANGED <<free, blocks>>

Release(a) ==
    /\ a \in blocks
    /\ blocks' = blocks \ {a}
    /\ free' = free \cup Run(a.base, a.n)
    /\ UNCHANGED <<asked, answer>>

ANext ==
    \/ \E n \in Sizes : Allocate(n) \/ Refuse(n)
    \/ \E a \in blocks : Release(a)

ASpec == AInit /\ [][ANext]_avars

=============================================================================
