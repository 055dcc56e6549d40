--------------------------- MODULE ValidityChecker ---------------------------
(***************************************************************************)
(* The TLS validity monitor of src/src/acme/validity_checker.rs: a        *)
(* background service that, every Interval, runs validity_check over the  *)
(* certificate list and sends a TlsValidity webhook with its error.        *)
(* Time is in abstract units; certificates take every validity window    *)
(* over 0..MaxTime, chosen initially.                                      *)
(***************************************************************************)
EXTENDS Integers, Sequences, FiniteSets

CONSTANTS
    CertList,   \* the (name, CertificateInfo) list, as a sequence of names
    Offset,     \* time_offset: warn this long before not_after
    Interval,   \* the service interval
    MaxTime,    \* bound on the clock
    None        \* no webhook

Names == {CertList[i] : i \in 1..Len(CertList)}
Times == 0..MaxTime
Windows == {w \in Times \X Times : w[1] <= w[2]}   \* <<not_before, not_after>>

VARIABLES
    cert,      \* name -> <<not_before, not_after>>
    now,       \* util::now()
    phase,     \* "run": the service is due; "sleep": waiting for the interval
    start,     \* history: when the service started
    warned     \* history: the certificates named in a webhook so far

vars == <<cert, now, phase, start, warned>>

\* A fault variant for checking the properties: the offset left out.
WillExpireNoOffset(n) == now > cert[n][2]

\* The two checks of the loop body, in the order of the code.
WillExpire(n) == now > cert[n][2] - Offset
NotYetValid(n) == now < cert[n][1]

\* validity_check: the first certificate of the list failing a check, or
\* None when all pass (the loop returns Err at the first failure).
RECURSIVE FirstProblemFrom(_)
FirstProblemFrom(i) ==
    IF i > Len(CertList) THEN None
    ELSE IF WillExpire(CertList[i]) \/ NotYetValid(CertList[i]) THEN CertList[i]
    ELSE FirstProblemFrom(i + 1)

FirstProblem == FirstProblemFrom(1)

Init ==
    /\ cert \in [Names -> Windows]
    /\ now \in Times
    /\ phase = "run"
    /\ start = now
    /\ warned = {}

\* ValidityChecker::run: validity_check, then a webhook with its error.
Run ==
    /\ phase = "run"
    /\ warned' = IF FirstProblem = None THEN warned ELSE warned \union {FirstProblem}
    /\ phase' = "sleep"
    /\ UNCHANGED <<cert, now, start>>

\* The service scheduler sleeps one interval and runs the task again.  The
\* service never stops; past MaxTime the model stops following the clock.
Tick ==
    /\ phase = "sleep"
    /\ IF now + Interval <= MaxTime
         THEN /\ now' = now + Interval
              /\ phase' = "run"
              /\ UNCHANGED <<cert, start, warned>>
         ELSE UNCHANGED vars

Next == Run \/ Tick

Spec == Init /\ [][Next]_vars

-----------------------------------------------------------------------------

\* Every certificate that expires while the monitor runs, and whose warning
\* window (Offset before not_after) began after the monitor started, has
\* been named in a TlsValidity webhook by the time it expires.
WarnedBeforeExpiry ==
    \A n \in Names :
        start <= cert[n][2] - Offset /\ now >= cert[n][2] => n \in warned
=============================================================================
