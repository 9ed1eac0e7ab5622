---------------------------- MODULE MCMemAccess -----------------------------
(***************************************************************************)
(* Instances of MemAccess for TLC: three pages of two bytes.  The accesses *)
(* start at the last byte of page 1 and go on to page 2; page 0 is there   *)
(* to share a region with them.                                            *)
(***************************************************************************)
EXTENDS MemAccess

Entry(frame, block) == [frame |-> frame, status |-> "ok", block |-> block]

\* Frames 0 and 1 are the host's.  Pages 0 and 1 in one region; pages 1 and 2 in one
\* region; pages 1 and 2 in host memory, contiguous or swapped.
Layouts == {<<Entry(2, 0), Entry(3, 0), Entry(0, External)>>,
            <<NoPage, Entry(2, 1), Entry(3, 1)>>,
            <<NoPage, Entry(0, External), Entry(1, External)>>,
            <<NoPage, Entry(1, External), Entry(0, External)>>}

\* Pages 1 and 2 are in any state.
ThreePages == {[p \in PageNos |->
                  IF p = 0 THEN l[1]
                  ELSE IF st[p] = "unmapped" THEN NoPage ELSE [l[p+1] EXCEPT !.status = st[p]]] :
                 l \in Layouts, st \in [{1, 2} -> Statuses]}

\* No patches, or one over the last byte of page 1 and the first of page 2.
PatchChoices == {{}, {3, 4}}

=============================================================================
