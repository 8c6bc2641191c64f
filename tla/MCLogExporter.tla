----------------------------- MODULE MCLogExporter -----------------------------
(* Two scrapes, and a log of two lines that is written anew once.           *)
EXTENDS LogExporter, TLC

\* Every invariant excuses what follows an overlap, so nothing is looked for there.
BeforeOverlap == ~overlapped

\* Every refused write of the offset may count a line once more: twice is enough.
FewRecounts == \A l \in Line : before[l] + counters[l] <= 2

Symmetry == Permutations(Scrape)

=============================================================================
