----------------------------- MODULE MCPipeline -----------------------------
(* Model-checking instances of Pipeline: the empty query and one other.       *)
EXTENDS Pipeline

MCQueries == {"", "a"}
MCOneQuery == {""}

\* What happens in one behavior: two changes, and two items, or one when there
\* are two changes of which one is a reload.
Within == /\ keys + reloads <= 2
          /\ reloads = 0 \/ pushed + keys + reloads <= 3

MCNext ==
    \/ Push /\ Within'
    \/ User /\ Within'
    \/ EndOfInput \/ Fin \/ Poller \/ Coordinator \/ Matcher \/ Post

MCSpec ==
    /\ Init /\ [][MCNext]_vars
    /\ WF_vars(killed /\ EndOfInput) /\ WF_vars(Fin) /\ WF_vars(Poller)
    /\ WF_vars(Coordinator) /\ WF_vars(Matcher) /\ WF_vars(Post)
=============================================================================
