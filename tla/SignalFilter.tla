---------------------------- MODULE SignalFilter ----------------------------
(***************************************************************************)
(* Glitch merging of captured signals, bridge/src/client.py.  An edge is a *)
(* pulse [level, us].                                                      *)
(***************************************************************************)
EXTENDS Integers, Sequences, SequencesExt

RESOLUTION_PRESETS == [exact |-> 1, fine |-> 5, normal |-> 20, coarse |-> 100]

\* resolve_resolution_us of a name, or of a number of microseconds when the
\* name is none of the presets (None is 0).
ResolveResolution(name, us) ==
    IF name \in DOMAIN RESOLUTION_PRESETS THEN RESOLUTION_PRESETS[name]
    ELSE IF us > 1 THEN us ELSE 1

Widened(merged, us) == [merged EXCEPT ![Len(merged)].us = @ + us]

\* Mutant: pulses of one level that a glitch parted stay two.
MergeEdgeKeepsSplit(us, acc, e) ==
    CASE e.us < us /\ acc.merged # <<>> -> [acc EXCEPT !.merged = Widened(@, e.us)]
      [] e.us < us /\ acc.merged = <<>> -> [acc EXCEPT !.carry = @ + e.us]
      [] OTHER -> [merged |-> Append(acc.merged, [e EXCEPT !.us = @ + acc.carry]), carry |-> 0]

\* One turn of the loop of apply_resolution.  A glitch is added to the last
\* pulse kept, or carried to the first one.
MergeEdge(us, acc, e) ==
    LET kept == acc.merged
        full == [level |-> e.level, us |-> e.us + acc.carry]
    IN  CASE e.us < us /\ kept # <<>> -> [acc EXCEPT !.merged = Widened(kept, e.us)]
          [] e.us < us /\ kept = <<>> -> [acc EXCEPT !.carry = @ + e.us]
          [] OTHER -> [merged |-> IF kept # <<>> /\ Last(kept).level = e.level
                                  THEN Widened(kept, full.us) ELSE Append(kept, full),
                       carry  |-> 0]

MergeEdges(us, edges) ==
    FoldLeft(LAMBDA acc, e : MergeEdge(us, acc, e), [merged |-> <<>>, carry |-> 0], edges)

ApplyResolution(edges, us) ==
    IF us <= 1 \/ edges = <<>> THEN edges
    ELSE LET end == MergeEdges(us, edges)
         IN  IF end.carry > 0 /\ end.merged # <<>>
             THEN [end.merged EXCEPT ![1].us = @ + end.carry] ELSE end.merged

TotalTime(edges) == FoldLeft(LAMBDA s, e : s + e.us, 0, edges)
=============================================================================
