-------------------------------- MODULE Pay --------------------------------
(***************************************************************************)
(* Hours and money: how a duration becomes worked_seconds and how those     *)
(* become calculated_amount, in checkOut (Go and SQL) and again in          *)
(* adminCorrectAttendance.                                                  *)
(***************************************************************************)
EXTENDS Integers

CONSTANTS
  TicksPerSecond,  \* ticks of the API's clock in a second
  DivScale,        \* scale PostgreSQL keeps of the quotient of two NUMERICs
  SimpleProtocol   \* DATABASE_URL has default_query_exec_mode=simple_protocol

\* The UPDATEs of both handlers use the parameter for the working time as
\* worked_seconds and as ::numeric.  PostgreSQL gives a parameter one type and
\* refuses the statement when it parses it - unless pgx writes the values into
\* the text of statements, which is not its default.
ASSUME PayAssumption ==
  /\ TicksPerSecond \in Nat \ {0} /\ DivScale \in Nat \ {0}
  /\ SimpleProtocol \in BOOLEAN

\* int64(d.Seconds()) and d / time.Second: both cut towards zero.
Seconds(d) == IF d >= 0 THEN d \div TicksPerSecond ELSE -((-d) \div TicksPerSecond)

\* m / n rounded half up.
RoundDiv(m, n) == (2 * m + n) \div (2 * n)

HourSeconds == 3600

\* Slip: the seconds of the interval instead of the seconds in it.
Amount_SecondsField(worked, rate) ==
  RoundDiv(RoundDiv((worked % 60) * DivScale, HourSeconds) * rate, DivScale)

\* Slip: the quotient rounded to cents before it is multiplied.
Amount_RoundedEarly(worked, rate) == (RoundDiv(worked * 100, HourSeconds) * rate) \div 100

\* round((worked::numeric / 3600) * hourly_rate, 2), in cents: the quotient is
\* rounded to a scale of its own before it is multiplied.
Amount(worked, rate) == RoundDiv(RoundDiv(worked * DivScale, HourSeconds) * rate, DivScale)
=============================================================================
