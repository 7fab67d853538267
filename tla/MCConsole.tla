----------------------------- MODULE MCConsole ------------------------------
(***************************************************************************)
(* What a user of the console meets, for TLC, in scenarios that share no   *)
(* state: "keys", a process that reads what is typed; "shell", sfsh and    *)
(* init; "queue", the abstract scheduler that runs them.                   *)
(***************************************************************************)
EXTENDS SchedAbs, Keyboard, Shell

VARIABLE which

Redirects == {<<>>, <<">">>, <<">", "f">>, <<">>", "g">>, <<"<", "f">>, <<"<<", "e">>}

MCLines ==
    {<<c>> \o r \o s : c \in {"echo", "cd", "exit", "prog"},
                       r \in Redirects, s \in Redirects}
      \union {r \o <<"echo">> \o s : r \in Redirects, s \in Redirects}
      \union Redirects

MCInit ==
    /\ Init /\ KInit /\ SInit /\ which \in {"queue", "keys", "shell"}
    /\ which = "shell" \/ cwd = CHOOSE d \in Dirs : TRUE

MCNext ==
    \/ which = "queue" /\ Next /\ UNCHANGED <<kvars, svars, which>>
    \/ which = "keys" /\ KNext /\ UNCHANGED <<vars, svars, which>>
    \/ which = "shell" /\ SNext /\ UNCHANGED <<vars, kvars, which>>

\* KFairness and SFairness, each in its scenario.
MCFairness ==
    /\ WF_kvars(which = "keys" /\ Push) /\ SF_kvars(which = "keys" /\ Reader)
    /\ WF_svars(which = "shell" /\ InitSpawn)
    /\ WF_svars(which = "shell" /\ InitReap)
    /\ WF_svars(which = "shell" /\ InitWakes)

MCSpec == MCInit /\ [][MCNext]_<<vars, kvars, svars, which>> /\ MCFairness

\* A shell that has left, by exit or killed, comes back (ShellComesBack): main of
\* init.c waits for it, sleeps and starts another.
ShellReturns == which = "shell" => ShellComesBack
=============================================================================
