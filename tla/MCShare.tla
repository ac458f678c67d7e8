------------------------------ MODULE MCShare ------------------------------
(* Bounds of the model checked for ShareLink.  With a cloudflared on $PATH  *)
(* nothing is ever installed and two processes overlap; without one, two    *)
(* installers overlap, and one process is followed at a time.               *)
EXTENDS ShareLink

FirstProc == CHOOSE p \in Procs : TRUE

OneProcessWhenInstalling ==
  onPath \/ \A p \in Procs \ {FirstProc} : proc[p] = "none"
=============================================================================
