----------------------------- MODULE MCPolicies -----------------------------
(* Results in hundredths of R; trades of a challenge account in percent;    *)
(* backtest results in halves of R, booked in tenths of that.                *)
EXTENDS Policies

LossOrDouble == {-100, 200}
Tenths == {-10, 10}

\* Bars around a sweep: quiet; swept, closing outside; swept deep outside of the trading
\* window; both levels swept, closing back; the high swept, closing outside.
ReclaimKinds ==
    {QuietBar, [QuietBar EXCEPT !.under = 1, !.close = "under"],
     [QuietBar EXCEPT !.under = 2, !.close = "under", !.window = FALSE],
     [QuietBar EXCEPT !.under = 1, !.over = 1], [QuietBar EXCEPT !.over = 1, !.close = "over"]}
\* Bars of a reversion: a sweep with displacement at the highest price; a displacement with
\* a gap that is filled; a sweep of the high with a gap, at the lowest price; a bar that
\* leaves the gap; one that is not in the window.  An hour of one bar, pivots over two.
ReversionKinds ==
    {[QuietBar EXCEPT !.under = 1, !.over = 1, !.displacement = TRUE, !.high = 6, !.low = 2],
     [QuietBar EXCEPT !.displacement = TRUE, !.gap = "LONG", !.mid = TRUE],
     [QuietBar EXCEPT !.under = 1, !.over = 1, !.close = "under", !.displacement = TRUE,
                      !.gap = "SHORT", !.high = 5, !.low = 1],
     [QuietBar EXCEPT !.outside = TRUE, !.mid = TRUE],
     [QuietBar EXCEPT !.mid = TRUE, !.window = FALSE]}
BTProfiles == {[perSession |-> 1, size |-> 1], [perSession |-> 2, size |-> 2]}
BTTimeouts == {-1}
BTMid == {-1, 2}
=============================================================================
