----------------------------- MODULE MCSession -----------------------------
EXTENDS Session

NoBinding == [e \in Events |-> None]
On(e, a) == [NoBinding EXCEPT ![e] = a]

Plain == [filter |-> None, select1 |-> FALSE, exit0 |-> FALSE, sync |-> FALSE,
          auto |-> FALSE, tty |-> TRUE, bound |-> NoBinding]

\* The ways to run the finder that differ in when they start, activate and leave.
MCConfigs ==
    { [Plain EXCEPT !.filter = "scan"],
      [Plain EXCEPT !.filter = "stream"],
      [Plain EXCEPT !.select1 = TRUE],
      [Plain EXCEPT !.select1 = TRUE, !.exit0 = TRUE, !.tty = FALSE],
      [Plain EXCEPT !.exit0 = TRUE, !.auto = TRUE, !.bound = On("one", "accept")],
      [Plain EXCEPT !.select1 = TRUE, !.bound = On("start", "print-query")],
      [Plain EXCEPT !.sync = TRUE],
      [Plain EXCEPT !.sync = TRUE, !.bound = On("zero", "abort")],
      [Plain EXCEPT !.sync = TRUE, !.bound = On("load", "other")],
      [Plain EXCEPT !.sync = TRUE, !.select1 = TRUE, !.bound = On("focus", "other")],
      [Plain EXCEPT !.sync = TRUE, !.auto = TRUE, !.bound = On("result", "accept")] }

\* The event result is bound while the start of the interface is deferred.
MCHangConfigs == { [Plain EXCEPT !.select1 = TRUE, !.bound = On("result", "other")] }

\* The only match is accepted.
MCOneConfigs == { [Plain EXCEPT !.bound = On("one", "accept")] }

=============================================================================
