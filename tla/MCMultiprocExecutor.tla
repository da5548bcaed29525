------------------------ MODULE MCMultiprocExecutor ------------------------
\* Model-checking instance of MultiprocExecutor.
EXTENDS MultiprocExecutor

Steps == {"execute_model", "sample_tokens"}
Env(failing, timed_out, deaths, registered) ==
  [failing |-> failing, timed_out |-> timed_out, deaths |-> deaths, registered |-> registered]

\* Steps that raise while the callback is being registered, and workers that die
\* while steps time out.
MCEnvironments == {Env(Steps, {}, FALSE, FALSE), Env({}, Steps, TRUE, TRUE)}
=============================================================================
