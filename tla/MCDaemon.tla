------------------------------ MODULE MCDaemon ------------------------------
(* Daemon with a few requests of any kind, of which one may come early.    *)
EXTENDS Daemon

\* The primary application may fail wherever it is started or reloaded, except in
\* the action loop: there a failure that finds the channel full would have the
\* loop wait for itself.
FailsOutsideLoop == {"main", "periodic"} \cup Requests

FailsAtStart == {"main"}
=============================================================================
