-------------------------------- MODULE MCProc --------------------------------
(***************************************************************************)
(* The PCB fields of an INACTIVE pid (parent_pid, active_sess, the pending *)
(* queue, the handlers) are overwritten by child_pcb_init and             *)
(* proc_signal_init before anything reads them again, so states that      *)
(* differ only there are the same state: ProcView forgets them.           *)
(***************************************************************************)
EXTENDS Proc

Dead(f, blank) == [p \in Pids |-> IF status[p] = INACTIVE THEN blank ELSE f[p]]

ProcView == <<status, Dead(parent, NoPid), Dead(sess, 0), cur, curSess, saPcb,
              Dead(pending, <<>>), Dead(handled, {}), err, mmu>>
=============================================================================
