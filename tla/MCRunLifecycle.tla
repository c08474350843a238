--------------------------- MODULE MCRunLifecycle ---------------------------
(* Instance of RunLifecycle for TLC.                                         *)
EXTENDS RunLifecycle

Plain == [mode |-> "loop", scoped |-> TRUE, durable |-> TRUE, custom |-> FALSE,
          retryBusiness |-> FALSE]

\* The built-in queue with a scope; a provider of the user's without one; a direct call.
MCConfigs == {Plain,
              [Plain EXCEPT !.durable = FALSE, !.custom = TRUE, !.scoped = FALSE,
                            !.retryBusiness = TRUE],
              [Plain EXCEPT !.mode = "direct"]}
=============================================================================
