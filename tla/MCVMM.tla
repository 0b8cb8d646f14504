------------------------------- MODULE MCVMM --------------------------------
(* A small instance of module VMM.                                         *)
EXTENDS VMM, TLC

CONSTANTS t0, t1, t2

\* The user tasks may change places; init may not.
UserTasks == Permutations({t1, t2})

Seg(va, filesz, memsz, flags) ==
    [va |-> va, filesz |-> filesz, memsz |-> memsz, flags |-> flags]

\* Code that starts inside a page, and data with a part to be cleared that
\* reaches into a page of its own.
TwoSegments == <<Seg(1, 1, 1, {"R"}), Seg(2, 1, 4, {"R", "W"})>>

\* Nothing to be loaded; two segments in one page; one beyond the end of user
\* memory; one where the stack goes, and one inside the stack; more in the file than
\* in memory; one that starts before another and runs into it.
NoFile  == <<Seg(2, 0, 2, {"R", "W"}), Seg(0, 1, 1, {"R"})>>
OnePage == <<Seg(0, 1, 1, {"R"}), Seg(1, 1, 1, {"R", "W"})>>
TooHigh == <<Seg(2, 1, 20, {"R", "W"})>>
InStack == <<Seg(6, 1, 1, {"R"})>>
Inside  == <<Seg(8, 1, 1, {"R"})>>
TooLong == <<Seg(0, 2, 1, {"R"})>>
Running == <<Seg(4, 1, 1, {"R"}), Seg(2, 1, 3, {"R", "W"})>>

SomePrograms == {TwoSegments, NoFile, OnePage, TooHigh, InStack, Inside, TooLong, Running}

=============================================================================
