------------------------------- MODULE MCPage -------------------------------
(* Bounds of the model checked for ProgressPage: one request that is        *)
(* repeated or one part that fails, and of the parts that may have been     *)
(* kept one for both.  With two pumps no request is repeated, and a browser *)
(* connects only to be sent its first frame, of an upload with one part     *)
(* missing and none that failed.                                            *)
EXTENDS ProgressPage

FirstPart == CHOOSE p \in Parts : TRUE

OneMishap   == Cardinality({p \in Parts : tries[p] > 1})
               + Cardinality({p \in Parts : part[p] \in {"failed", "noetag"}}) <= 1
KeptInOrder == kept \in {{}, {FirstPart}}
FirstFrame  == \/ handler = "closed"
               \/ /\ kept # {} /\ ~Failed /\ announced
                  /\ publisher = "idle" /\ ~pending /\ ~dirty
SecondPump  == pumps = 2 => ~Retried /\ FirstFrame
Small       == OneMishap /\ KeptInOrder /\ SecondPump
=============================================================================
