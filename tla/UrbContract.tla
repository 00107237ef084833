---------------------------- MODULE UrbContract ----------------------------
(***************************************************************************)
(* What the URBs of a session promise the rest of the driver, and it them, *)
(* without a URB, an error count or a mutex in sight.  UrbQueue implements *)
(* it with completion handlers; StreamSession, which sees the URBs only as *)
(* in flight or not and a failure as one step, keeps it too, as a part of  *)
(* SessionContract.                                                        *)
(*                                                                         *)
(* URBs move for a live session and, when it has ended, until they are     *)
(* drained; no session begins before.  A failure and the work it asks for  *)
(* come together.  The failure is forgotten only when all is drained, and  *)
(* the work is not done before, unless the device is gone.                 *)
(***************************************************************************)

VARIABLES
    live,     \* is the session live
    moving,   \* have its URBs gone out, and not all come back for good
    fatal,    \* have they failed
    pending,  \* is the work that ends a failed session asked for
    worker,   \* is it at work
    gone      \* is the device going away

urbVars == <<live, moving, fatal, pending, worker, gone>>

Drained == ~live /\ ~moving

UrbInit ==
    /\ live = FALSE /\ moving = FALSE
    /\ fatal = FALSE /\ pending = FALSE /\ worker = FALSE /\ gone = FALSE

\* A session begins, with a clean slate.
GoLive ==
    /\ Drained
    /\ live' = TRUE /\ fatal' = FALSE
    /\ UNCHANGED <<moving, pending, worker, gone>>

Send ==
    /\ live /\ moving' = TRUE
    /\ UNCHANGED <<live, fatal, pending, worker, gone>>

\* Failures of URBs that are still about count as well when it has ended.
Fail ==
    /\ moving /\ fatal' = TRUE /\ pending' = TRUE
    /\ UNCHANGED <<live, moving, worker, gone>>

\* It ends, at once drained if no URB is about.
End ==
    /\ live /\ live' = FALSE
    /\ moving' \in {moving, FALSE}
    /\ UNCHANGED <<fatal, pending, worker, gone>>

Drain ==
    /\ ~live /\ moving' = FALSE
    /\ UNCHANGED <<live, fatal, pending, worker, gone>>

\* The work begins, while a URB that fails may already be asking again.
WorkBegins ==
    /\ pending /\ ~worker
    /\ worker' = TRUE /\ pending' \in {FALSE, moving}
    /\ UNCHANGED <<live, moving, fatal, gone>>

\* It finds nothing to do ...
WorkIdles ==
    /\ worker /\ (~fatal \/ gone)
    /\ worker' = FALSE
    /\ UNCHANGED <<live, moving, fatal, pending, gone>>

\* ... or forgets the failure once the session is drained.
WorkEnds ==
    /\ worker /\ Drained
    /\ worker' = FALSE /\ fatal' = FALSE
    /\ UNCHANGED <<live, moving, pending, gone>>

\* Who has drained the session may cancel the work.
Cancel ==
    /\ Drained /\ ~worker
    /\ pending' = FALSE
    /\ UNCHANGED <<live, moving, fatal, worker, gone>>

Leave == gone' = TRUE /\ UNCHANGED <<live, moving, fatal, pending, worker>>

UrbNext == \/ GoLive \/ Send \/ Fail \/ End \/ Drain
           \/ WorkBegins \/ WorkIdles \/ WorkEnds \/ Cancel \/ Leave

UrbSpec == UrbInit /\ [][UrbNext]_urbVars

\* A live session that has failed has the work asked for, or at work.
Watched == fatal /\ live => pending \/ worker \/ gone

\* A failure is forgotten only when nothing is live and nothing moves.
ForgottenDrained == [][fatal /\ ~fatal' => Drained]_urbVars
=============================================================================
