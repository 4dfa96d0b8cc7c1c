---------------------------- MODULE DevelopmentDay ----------------------------
(* From a frozen archive with holes to a scored trade of research version 2:  *)
(* the gaps that verify_completed reports (finalization.py), the inventory    *)
(* and the mask made of them (remediation.py), the structural audit of the    *)
(* development run (v2_history/adapter.py), and one intent on one day (v2:    *)
(* features.py, signal.py, clock.py, simulator.py, fills.py).                 *)
(*                                                                            *)
(* Four programs judge the same holes, each with its own rule, and only their *)
(* files connect them.  Time is counted in ticks from the open of a day; a    *)
(* bar's slot is Step ticks, and a halt may begin or end inside one.  Prices  *)
(* are left out: an entry may always be refused, and any bar may meet the     *)
(* stop or the target.                                                        *)
EXTENDS Integers, Sequences, FiniteSets, FiniteSetsExt, Functions

CONSTANTS
    Symbols,      \* of the archive, all of which the protocol needs
    Close,        \* Close[d]: the close of day d, in ticks; early on some days
    Step,         \* ticks of a slot
    Decision, Lookback, Delays, Holding,  \* of the signal, in ticks
    BeforeClose,  \* 45 minutes, in ticks
    GapShare, DayShare,  \* one in so many slots or days may be lost: 1000, 200
    Events,      \* the halts that may happen: <<day, from, to>>
    MaxMissing, MaxHalts  \* bounds: holes of the archive, verified halts

ASSUME DayAssumption ==
    /\ Step \in Nat \ {0}
    /\ Close \in Seq({n \in Nat : n % Step = 0})
    /\ {Decision, Lookback, Holding, BeforeClose} \cup Delays \subseteq {n \in Nat : n % Step = 0}
    /\ Events \subseteq (DOMAIN Close) \X Nat \X Nat
    /\ \A h \in Events : h[2] < h[3] /\ h[3] <= Close[h[1]]
    /\ MaxMissing \in Nat /\ MaxHalts \in Nat

VARIABLES
    missing,   \* missing[s]: the slots for which the archive has no bar
    halts,     \* verified halts: <<day, from, to>>
    verified,  \* symbols whose identity is verified, with limitations or without
    coverage,  \* coverage[s]: the gaps of s as the audit reports them
    mask,      \* universe and excluded sessions of the view
    phase,     \* how far the programs have come
    trade      \* the intent on its day, and what became of it

dayVars == <<missing, halts, verified, coverage, mask, phase, trade>>

\* scheduled_slots: the slots of all days, and their order.
Slots == UNION {{<<d, at>> : at \in {k \in 0 .. Close[d] - 1 : k % Step = 0}} :
                  d \in DOMAIN Close}
NotAfter(t, u) == t[1] < u[1] \/ (t[1] = u[1] /\ t[2] <= u[2])
Between(t, u) == {v \in Slots : NotAfter(t, v) /\ NotAfter(v, u)}
Adjacent(t, u) == t # u /\ Between(t, u) = {t, u}

\* The subsets of S with at most n elements.
AtMost(n, S) == {{}} \cup {Range(f) : f \in [1 .. n -> S]}
NoTrade == [day |-> 0, symbol |-> "none", entry |-> 0, at |-> 0, until |-> 0,
            status |-> "none", reason |-> "none", upper |-> 0]

DayInit ==
    /\ \E holes \in AtMost(MaxMissing, Symbols \X Slots) :
         missing = [s \in Symbols |-> {x[2] : x \in {y \in holes : y[1] = s}}]
    /\ halts \in AtMost(MaxHalts, Events)
    /\ verified \in SUBSET Symbols
    /\ coverage = <<>> /\ mask = <<>>
    /\ phase = "archive" /\ trade = NoTrade

-----------------------------------------------------------------------------
(* The archive's gaps and the mask.                                           *)

\* verify_completed: the runs of missing slots, which may go on over a night.
Gaps(s) ==
    {g \in missing[s] \X missing[s] :
       /\ NotAfter(g[1], g[2]) /\ Between(g[1], g[2]) \subseteq missing[s]
       /\ \A t \in Slots : Adjacent(t, g[1]) \/ Adjacent(g[2], t) => t \notin missing[s]}

ReportGaps ==
    /\ phase = "archive"
    /\ coverage' = [s \in Symbols |-> Gaps(s)]
    /\ phase' = "reported"
    /\ UNCHANGED <<missing, halts, verified, mask, trade>>

\* gap_inventory: each gap expanded again, by bisection of the schedule; the count
\* of missing slots that it compares is the size of the result.
Expanded(gaps) == UNION {Between(g[1], g[2]) : g \in gaps}

AnyOverlap(slot) == \* mutant: a halt that covers a part of the slot is enough
    \E h \in halts : h[1] = slot[1] /\ h[2] < slot[2] + Step /\ slot[2] < h[3]
\* halted_slot: one halt covers the whole slot.
HaltedSlot(slot) ==
    \E h \in halts : h[1] = slot[1] /\ h[2] <= slot[2] /\ slot[2] + Step <= h[3]

\* build_mask: a hole that is no halt excludes its symbol's session; too many of
\* them, or an identity that is not verified, the symbol.
Lost(s) == {t \in Expanded(coverage[s]) : ~HaltedSlot(t)}
LostDays(s) == {t[1] : t \in Lost(s)}
Eligible(s) ==
    /\ Cardinality(Lost(s)) * GapShare
         <= Cardinality(Slots) - Cardinality({t \in Slots : HaltedSlot(t)})
    /\ Cardinality(LostDays(s)) * DayShare <= Len(Close)
    /\ s \in verified
Mask == [universe |-> {s \in Symbols : Eligible(s)},
         sessions |-> {x \in Symbols \X DOMAIN Close : x[2] \in LostDays(x[1])}]

Remediate ==
    /\ phase = "reported"
    /\ mask' = Mask
    /\ phase' = "masked"
    /\ UNCHANGED <<missing, halts, verified, coverage, trade>>

\* validity of a slot on the grid, without a window of days.
Validity(s, slot) ==
    CASE s \notin mask.universe -> "INVALID_EXCLUDED_SYMBOL"
      [] slot \notin Slots -> "NON_TRADING_SCHEDULED"
      [] <<s, slot[1]>> \in mask.sessions -> "INVALID_DATA_GAP"
      [] HaltedSlot(slot) -> "NON_TRADING_MWCB"
      [] OTHER -> "VALID"

-----------------------------------------------------------------------------
(* The clock of a day.                                                        *)

HaltsOf(d) == {<<h[2], h[3]>> : h \in {x \in halts : x[1] = d}}
Earlier(p, q) == p[1] < q[1] \/ (p[1] = q[1] /\ p[2] < q[2])

\* The halts of the day, cut to the interval.
Pieces(d, from, to) ==
    {<<Max({from, h[1]}), Min({to, h[2]})>> :
       h \in {x \in HaltsOf(d) : x[1] < to /\ x[2] > from}}

\* overlap_seconds: halts that overlap are counted once.  In order, a piece counts
\* from the cursor on, and that is the latest end of the pieces before it.
Overlap(d, from, to) ==
    LET pieces == Pieces(d, from, to)
        counted == {x \in pieces \X (from .. to - 1) :
                      /\ x[1][1] <= x[2] /\ x[2] < x[1][2]
                      /\ \A q \in pieces : Earlier(q, x[1]) => q[2] <= x[2]}
    IN  Cardinality(counted)

Tradable(d, from, to) == to - from - Overlap(d, from, to)
Halted(d, at) == \E h \in HaltsOf(d) : h[1] <= at /\ at < h[2]
FullyHalted(d, from, to) == Overlap(d, from, to) = to - from

Flat(d) == Close[d] - BeforeClose
\* mutant: the halts are not counted
WallBoundary(d, entry) == Min({entry + Holding, Flat(d)})
\* exit_boundary: the first slot at which the position was held long enough.
ExitBoundary(d, entry) ==
    LET enough == {at \in entry .. Flat(d) - 1 :
                     (at - entry) % Step = 0 /\ Tradable(d, entry, at) >= Holding}
    IN  IF enough = {} THEN Flat(d) ELSE Min(enough)

-----------------------------------------------------------------------------
(* The development run.                                                       *)

\* partitions (D2_UNIVERSE_OR_PARTITION) and structural_audit
\* (D2_UNMASKED_MISSING_SLOT).
Audit ==
    /\ phase = "masked"
    /\ phase' = CASE mask.universe # Symbols -> "universe"
                  [] \E s \in Symbols : \E t \in missing[s] :
                       /\ <<s, t[1]>> \notin mask.sessions
                       /\ ~FullyHalted(t[1], t[2], t[2] + Step) -> "unmasked"
                  [] OTHER -> "audited"
    /\ UNCHANGED <<missing, halts, verified, coverage, mask, trade>>

Bar(s, d, at) == <<d, at>> \notin missing[s]

Rejected(status, reason) == trade' = [trade EXCEPT !.status = status, !.reason = reason]

\* panel: the reasons for which a day has no panel.
NoPanel(d) ==
    LET begin == Decision - Lookback IN
      CASE \E s \in Symbols : <<s, d>> \in mask.sessions -> "NO_SIGNAL_QC_EXCLUDED"
        [] begin < 0 \/ Decision > Close[d] -> "NO_SIGNAL_WINDOW"
        [] Overlap(d, begin, Decision) # 0 -> "NO_SIGNAL_FEATURE_HALT"
        [] \E s \in Symbols, at \in begin .. Decision - 1 :
             at % Step = 0 /\ ~Bar(s, d, at) -> "NO_SIGNAL_MISSING_PANEL"
        [] OTHER -> "none"

\* build_intent: nothing that would still be held at the force-flat time.
TooLate(d, due) == due + Holding >= Flat(d)

\* simulate_session for one day: its panel, and the signal on the symbol that
\* ranks first, which prices may always withhold.
Signal ==
    /\ phase = "audited"
    /\ phase' = "session"
    /\ \E d \in DOMAIN Close, s \in Symbols, delay \in Delays :
         LET due == Decision + delay
             reason == IF NoPanel(d) # "none" THEN NoPanel(d)
                       ELSE IF TooLate(d, due) THEN "NO_SIGNAL_TIME" ELSE "none" IN
           trade' = IF reason # "none"
                    THEN [NoTrade EXCEPT !.day = d, !.status = "NO_SIGNAL", !.reason = reason]
                    ELSE [NoTrade EXCEPT !.day = d, !.symbol = s, !.entry = due,
                                         !.status = "intent"]
    /\ UNCHANGED <<missing, halts, verified, coverage, mask>>

\* simulate_intent up to the position: no waiting for a halt or a bar to end.
Enter ==
    /\ trade.status = "intent"
    /\ LET d == trade.day
           due == trade.entry IN
         CASE Halted(d, due) -> Rejected("NO_FILL", "ENTRY_DUE_HALTED")
           [] ~Halted(d, due) /\ ~Bar(trade.symbol, d, due) ->
                Rejected("INDETERMINATE", "INDETERMINATE_ENTRY")
           [] OTHER ->
                \/ Rejected("NO_FILL", "ENTRY_PRICE")
                \/ trade' = [trade EXCEPT !.status = "held", !.at = due,
                                          !.until = ExitBoundary(d, due)]
    /\ UNCHANGED <<missing, halts, verified, coverage, mask, phase>>

Scored(reason, upper) ==
    trade' = [trade EXCEPT !.status = "SCORED", !.reason = reason, !.upper = upper]

\* protective: what a bar may do to a position; the bar of the entry opens above
\* the stop (enter).
Protective(at) ==
    {"STOP", "TARGET"} \cup (IF at = trade.entry THEN {} ELSE {"GAP_THROUGH_STOP"})

\* One bar of the position: a slot that is halted throughout is passed over.
Hold ==
    /\ trade.status = "held" /\ trade.at < trade.until
    /\ LET d == trade.day
           at == trade.at
           on == trade' = [trade EXCEPT !.at = at + Step] IN
         CASE FullyHalted(d, at, at + Step) -> on
           [] ~FullyHalted(d, at, at + Step) /\ ~Bar(trade.symbol, d, at) ->
                Rejected("INDETERMINATE", "INDETERMINATE_POST_ENTRY")
           [] OTHER -> on \/ \E reason \in Protective(at) : Scored(reason, at + Step)
    /\ UNCHANGED <<missing, halts, verified, coverage, mask, phase>>

\* The exit that is due, at the open of its bar.
Exit ==
    /\ trade.status = "held" /\ trade.at >= trade.until
    /\ LET d == trade.day
           forced == trade.until = Flat(d) IN
         IF ~Halted(d, trade.until) /\ Bar(trade.symbol, d, trade.until)
         THEN Scored(IF forced THEN "FORCE_FLAT" ELSE "TIME_EXIT", trade.until)
         ELSE IF forced THEN Rejected("INDETERMINATE_FORCE_FLAT", "INDETERMINATE_FORCE_FLAT")
         ELSE Rejected("INDETERMINATE", "INDETERMINATE_TIME_EXIT")
    /\ UNCHANGED <<missing, halts, verified, coverage, mask, phase>>

DayNext == ReportGaps \/ Remediate \/ Audit \/ Signal \/ Enter \/ Hold \/ Exit

DaySpec == DayInit /\ [][DayNext]_dayVars

-----------------------------------------------------------------------------
(* Properties.                                                                *)

\* No hole of the archive ever counts as valid data, although the report cuts
\* the holes into gaps and the remediation puts them together again: none is
\* valid in the view, and the audit of the development run, with another rule for
\* halts, accepts every view of the needed universe (build_mask, validity,
\* structural_audit).
MaskCoversGaps ==
    /\ phase = "masked" => \A s \in Symbols : \A t \in missing[s] : Validity(s, t) # "VALID"
    /\ phase # "unmasked"

\* Ticks of an interval outside every halt.
OpenTime(d, from, to) ==
    Cardinality({k \in from .. to - 1 : ~\E h \in HaltsOf(d) : h[1] <= k /\ k < h[2]})

\* No hole reaches a trade: it is left without a result only when its exit is due
\* inside a halt.  Otherwise it is over by the force-flat time and was open to the
\* market less than one slot longer than the holding time; a time exit comes no
\* earlier, and only halts hold a position until it is forced (panel,
\* exit_boundary, simulate_intent).
TradesEndInTime ==
    /\ trade.status \in {"INDETERMINATE", "INDETERMINATE_FORCE_FLAT"} =>
         /\ trade.reason \in {"INDETERMINATE_FORCE_FLAT", "INDETERMINATE_TIME_EXIT"}
         /\ Halted(trade.day, trade.until)
    /\ trade.status = "SCORED" =>
         LET held == OpenTime(trade.day, trade.entry, trade.upper) IN
           /\ trade.upper <= Flat(trade.day) /\ held < Holding + Step
           /\ trade.reason = "TIME_EXIT" => held >= Holding
           /\ trade.reason = "FORCE_FLAT" => held < trade.upper - trade.entry
=============================================================================
