------------------------------ MODULE Booking ------------------------------
(***************************************************************************)
(* The booking engine of internal/booking/booking.go as operators on an    *)
(* engine record e:                                                        *)
(*   inv[a][c]   the average-cost position of account a in commodity c     *)
(*   bal[a][c]   the running unit balance                                  *)
(*   open, close the lifecycle date of each account (NoDate: none yet)     *)
(*   pad[a]      the pending pad directive of a (NoPad: none)              *)
(*   txns        the booked journal                                        *)
(*   notes, events  source lines of the stored note and event directives   *)
(*   diags       the diagnostics reported, each with its source line       *)
(*   tol[c]      the absolute tolerance of commodity c                     *)
(* A directive is a record with a "kind"; a posting's units, cost and      *)
(* price are records with a "kind" as well.                                *)
(***************************************************************************)
EXTENDS Rationals, FiniteSets, FiniteSetsExt

CONSTANTS Accounts, Commodities

NoAccount == ""
NoComm    == ""
NoDate    == 0
Dates     == Nat \ {NoDate}

(* A posting without a commodity is an error, so none has the empty name. *)
ASSUME CommoditiesAssumption == NoComm \notin Commodities

(* A ledger names finitely many of both. *)
ASSUME FiniteAssumption == IsFiniteSet(Accounts) /\ IsFiniteSet(Commodities)

NoPad      == [from |-> NoAccount, date |-> NoDate, line |-> 0]
NoPosition == [units |-> Zero, cost |-> Zero, costComm |-> NoComm]
NoBasis    == [set |-> FALSE, n |-> Zero, comm |-> NoComm]
NoCost     == [ok |-> FALSE, n |-> Zero, comm |-> NoComm]
NoOp       == [kind |-> "none", units |-> Zero, total |-> Zero, costComm |-> NoComm]

Currency == Commodities \cup {NoComm}
Position == [units : Num, cost : Num, costComm : Currency]

(* What a posting may say; an elided or faulty amount has nothing to read. *)
(* A cost or a price with a number names its commodity: {5} alone, which   *)
(* the parser lets pass, is weighed in no commodity and not modelled.      *)
Quantity(kinds) == [kind : kinds, n : Num, comm : Commodities]
PostingUnits == Quantity({"amount"}) \cup [kind : {"noNumber"}, comm : Commodities]
                \cup [kind : {"elided", "noComm"}]
PostingCost  == [kind : {"unit"}, n : Num, comm : Commodities, date : Nat]
                \cup [kind : {"none", "empty"}]
PostingPrice == Quantity({"unit", "total"}) \cup [kind : {"none"}]
Posting ==
    [acct : Accounts, units : PostingUnits, cost : PostingCost, price : PostingPrice,
     closing : BOOLEAN]
Flags == {"*", "!", "P"}
Transaction ==
    [kind : {"txn"}, date : Dates, line : Nat, flag : Flags, postings : Seq(Posting)]

(* What the engine reads of a directive. *)
IsDirective(d) ==
    /\ {"kind", "date", "line"} \subseteq DOMAIN d /\ d.date \in Dates /\ d.line \in Nat
    /\ d.kind \in {"open", "close", "pad", "balance"} => "acct" \in DOMAIN d /\ d.acct \in Accounts
    /\ d.kind = "pad" => "from" \in DOMAIN d /\ d.from \in Accounts
    /\ d.kind = "balance" =>
        {"n", "comm"} \subseteq DOMAIN d /\ d.n \in Num /\ d.comm \in Commodities
    /\ d.kind = "txn" => d \in Transaction

(* A fresh engine; tolerance[c] is CommTol[c] or the default tolerance. *)
New(tolerance) ==
    [inv    |-> [a \in Accounts |-> [c \in Commodities |-> NoPosition]],
     bal    |-> [a \in Accounts |-> [c \in Commodities |-> Zero]],
     open   |-> [a \in Accounts |-> NoDate],
     close  |-> [a \in Accounts |-> NoDate],
     pad    |-> [a \in Accounts |-> NoPad],
     txns   |-> << >>,
     notes  |-> {},
     events |-> {},
     diags  |-> {},
     tol    |-> tolerance]

Error(line, what, on) == [line |-> line, sev |-> "error", what |-> what, on |-> on]
Warn(line, what, on)  == [line |-> line, sev |-> "warn", what |-> what, on |-> on]
Report(e, ds) == [e EXCEPT !.diags = @ \cup ds]

(* Same-day order of directive kinds: lower runs first. *)
DirectiveOrder(kind) ==
    CASE kind = "open"     -> -2
      [] kind = "pad"      -> -1
      [] kind = "balance"  -> 0
      [] kind = "document" -> 2
      [] kind = "close"    -> 3
      [] OTHER             -> 1

HasPosition(e, a, c) == e.inv[a][c].units # Zero
Avg(pos) == IF pos.units = Zero THEN Zero ELSE RDiv(pos.cost, pos.units)

(* Mutant: an account that was never opened is not checked for its close. *)
MutCheckAccount(e, date, a, line) ==
    IF e.open[a] = NoDate THEN {Warn(line, "account not opened", a)}
    ELSE IF e.close[a] # NoDate /\ date >= e.close[a]
    THEN {Error(line, "posting after close", a)} ELSE {}

CheckAccount(e, date, a, line) ==
    (IF e.open[a] = NoDate THEN {Warn(line, "account not opened", a)}
     ELSE IF date < e.open[a] THEN {Error(line, "transaction before open", a)}
     ELSE {})
    \cup
    (IF e.close[a] # NoDate /\ date >= e.close[a]
     THEN {Error(line, "posting after close", a)} ELSE {})

BookOpen(e, d) ==
    IF e.open[d.acct] # NoDate
    THEN Report(e, {Error(d.line, "duplicate open", d.acct)})
    ELSE [e EXCEPT !.open[d.acct] = d.date]

BookClose(e, d) == [e EXCEPT !.close[d.acct] = d.date]

BookPad(e, d) ==
    [e EXCEPT !.pad[d.acct] = [from |-> d.from, date |-> d.date, line |-> d.line]]

----------------------------------------------------------------------------
(* bookTxn, phase 1: what one posting does to inventory. *)

(* The unit cost an increase names itself: {...}, else @ or @@. *)
ResolveIncreaseCost(p) ==
    LET n == p.units.n
    IN  IF p.cost.kind = "unit" THEN [ok |-> TRUE, n |-> p.cost.n, comm |-> p.cost.comm]
        ELSE IF p.price.kind = "none" \/ n = Zero THEN NoCost
        ELSE [ok   |-> TRUE,
              n    |-> IF p.price.kind = "total" THEN RDiv(RAbs(p.price.n), RAbs(n)) ELSE p.price.n,
              comm |-> p.price.comm]

(* Without one, an increase of a costed lot is booked at its average. *)
BuyCost(e, p) ==
    LET named == ResolveIncreaseCost(p)
        pos   == e.inv[p.acct][p.units.comm]
    IN  IF ~named.ok /\ RPositive(pos.units) /\ pos.costComm # NoComm
        THEN [ok |-> TRUE, n |-> Avg(pos), comm |-> pos.costComm]
        ELSE named

MovesInventory(e, p) ==
    \/ p.cost.kind # "none"
    \/ HasPosition(e, p.acct, p.units.comm)
    \/ RPositive(p.units.n) /\ ResolveIncreaseCost(p).ok

BuyOp(units, cost) ==
    [kind |-> "buy", units |-> units, total |-> RMul(units, cost.n), costComm |-> cost.comm]

(* A reduction removes cost at the average the lot had before the transaction. *)
SellOp(units, pos) ==
    [kind |-> "sell", units |-> units, total |-> RMul(units, Avg(pos)),
     costComm |-> IF pos.units = Zero THEN NoComm ELSE pos.costComm]

(* The inventory operation a posting with an amount plans. *)
PlanOp(e, p) ==
    LET n == p.units.n
    IN  CASE MovesInventory(e, p) /\ RPositive(n) -> BuyOp(n, BuyCost(e, p))
          [] MovesInventory(e, p) /\ RNegative(n) ->
                SellOp(RNeg(n), e.inv[p.acct][p.units.comm])
          [] OTHER -> NoOp

PostingErrors(e, t, i) ==
    LET p   == t.postings[i]
        pos == e.inv[p.acct][p.units.comm]
    IN  CASE p.units.kind = "elided" ->
                {Error(t.line, "multiple residual postings", NoAccount) :
                    j \in {k \in 1..(i - 1) : t.postings[k].units.kind = "elided"}}
          [] p.units.kind = "noNumber" -> {Error(t.line, "amount missing number", p.acct)}
          [] p.units.kind = "noComm"   -> {Error(t.line, "amount missing commodity", p.acct)}
          [] p.units.kind = "amount" /\ RPositive(p.units.n) /\ MovesInventory(e, p)
                /\ ~BuyCost(e, p).ok -> {Error(t.line, "buy requires explicit cost", p.units.comm)}
          [] p.units.kind = "amount" /\ RNegative(p.units.n) /\ p.cost.kind = "unit"
                /\ pos.units # Zero
                /\ ~RWithin(p.cost.n, Avg(pos), e.tol[p.units.comm]) ->
                    {Error(t.line, "sell cost # average", p.units.comm)}
          [] OTHER -> {}

Basis(op) ==
    CASE op.kind = "buy"  -> [set |-> TRUE, n |-> op.total, comm |-> op.costComm]
      [] op.kind = "sell" -> [set |-> TRUE, n |-> RNeg(op.total), comm |-> op.costComm]
      [] OTHER            -> NoBasis

----------------------------------------------------------------------------
(* bookTxn, phase 1b: what each posting weighs when the sum must be zero. *)

Costed(basis) == basis.set /\ basis.comm # NoComm

(* Mutant: a sale weighs its proceeds instead of the cost it removes. *)
MutPostingWeight(p, basis) ==
    IF p.price.kind = "unit" THEN [comm |-> p.price.comm, n |-> RMul(p.units.n, p.price.n)]
    ELSE IF Costed(basis) THEN [comm |-> basis.comm, n |-> basis.n]
    ELSE [comm |-> p.units.comm, n |-> p.units.n]

(* Cost basis if the leg moves a lot, else its own cost, its price, its face. *)
PostingWeight(p, basis) ==
    LET n == p.units.n
    IN  IF Costed(basis) THEN [comm |-> basis.comm, n |-> basis.n]
        ELSE IF p.cost.kind = "unit" THEN [comm |-> p.cost.comm, n |-> RMul(n, p.cost.n)]
        ELSE IF p.price.kind = "unit" THEN [comm |-> p.price.comm, n |-> RMul(n, p.price.n)]
        ELSE IF p.price.kind = "total"
             THEN [comm |-> p.price.comm,
                   n |-> IF RNegative(n) THEN RNeg(RAbs(p.price.n)) ELSE RAbs(p.price.n)]
        ELSE [comm |-> p.units.comm, n |-> n]

(* Currencies the other legs need in face terms; amounts are i \in given. *)
FaceCurrencyDemand(t, given, basis) ==
    LET demanded(i) ==
          LET n == t.postings[i].units.n
          IN  CASE RPositive(n) /\ Costed(basis[i]) -> basis[i].comm
                [] RNegative(n) /\ basis[i].set -> NoComm
                [] OTHER -> PostingWeight(t.postings[i], basis[i]).comm
    IN  {demanded(i) : i \in given} \ {NoComm}

CashFaceWeight(p, basis, demand) ==
    /\ Costed(basis)
    /\ basis.comm # p.units.comm
    /\ p.price.kind = "none"
    /\ p.cost.kind # "unit"
    /\ RPositive(p.units.n) \/ p.units.comm \in demand

(* Mutant: foreign-costed cash always weighs at cost. *)
MutLegWeight(p, basis, demand) == PostingWeight(p, basis)

LegWeight(p, basis, demand) ==
    IF CashFaceWeight(p, basis, demand)
    THEN [comm |-> p.units.comm, n |-> p.units.n]
    ELSE PostingWeight(p, basis)

----------------------------------------------------------------------------
(* bookTxn: the residual leg, and the plan of a whole transaction. *)

Given(t)    == {i \in DOMAIN t.postings : t.postings[i].units.kind = "amount"}
Residual(t) == {i \in DOMAIN t.postings : t.postings[i].units.kind = "elided"}

(* An explicit posting already moves the same units of this lot. *)
InvOpAlready(t, explicit, a, c, n) ==
    \E j \in Given(t) :
        /\ t.postings[j].acct = a /\ t.postings[j].units.comm = c
        /\ \/ RNegative(n) /\ explicit[j].kind = "sell" /\ explicit[j].units = RNeg(n)
           \/ RPositive(n) /\ explicit[j].kind = "buy" /\ explicit[j].units = n

(* Mutant: the residual leg changes the bare balance only. *)
MutResidualOp(e, t, explicit, a, c, n) == NoOp

(* A residual amount on an account that holds a lot moves the lot as well. *)
ResidualOp(e, t, explicit, a, c, n) ==
    LET pos == e.inv[a][c]
    IN  CASE ~HasPosition(e, a, c) \/ InvOpAlready(t, explicit, a, c, n) -> NoOp
          [] OTHER -> CASE RNegative(n) -> SellOp(RNeg(n), pos)
                        [] RPositive(n) /\ pos.costComm # NoComm ->
                                BuyOp(n, [n |-> Avg(pos), comm |-> pos.costComm])
                        [] OTHER -> NoOp

(* The sum of the weights of the postings with an amount, by commodity. *)
WeightTotals(t, basis, demand) ==
    LET sum(weight) == [c \in Commodities |->
            RSum([i \in DOMAIN weight |-> IF weight[i].comm = c THEN weight[i].n ELSE Zero])]
    IN  sum([i \in DOMAIN t.postings |->
                IF i \in Given(t) THEN LegWeight(t.postings[i], basis[i], demand)
                                  ELSE [comm |-> NoComm, n |-> Zero]])

(* Units per posting and commodity; the residual posting takes minus every *)
(* sum that is off.                                                        *)
Amounts(t, total, off) ==
    [i \in DOMAIN t.postings |-> [c \in Commodities |->
        CASE i \in Given(t) /\ c = t.postings[i].units.comm -> t.postings[i].units.n
          [] i \in Residual(t) /\ c \in off                 -> RNeg(total[c])
          [] OTHER                                           -> Zero]]

Operations(e, t, explicit, amts) ==
    [i \in DOMAIN t.postings |-> [c \in Commodities |->
        CASE i \in Given(t) /\ c = t.postings[i].units.comm -> explicit[i]
          [] i \in Residual(t) ->
                ResidualOp(e, t, explicit, t.postings[i].acct, c, amts[i][c])
          [] OTHER -> NoOp]]

(* What a transaction without faulty postings would do: off is the set of  *)
(* commodities whose weights do not sum to zero, amts[i][c] and ops[i][c]  *)
(* the units and the inventory operation of posting i in commodity c.      *)
Plan(e, t) ==
    LET explicit == [i \in DOMAIN t.postings |->
                        IF i \in Given(t) THEN PlanOp(e, t.postings[i]) ELSE NoOp]
        basis == [i \in DOMAIN t.postings |-> Basis(explicit[i])]
        total == WeightTotals(t, basis, FaceCurrencyDemand(t, Given(t), basis))
        off   == {c \in Commodities : ~RLe(RAbs(total[c]), e.tol[c])}
        amts  == Amounts(t, total, off)
    IN  [off |-> off, amts |-> amts, basis |-> basis, ops |-> Operations(e, t, explicit, amts)]

----------------------------------------------------------------------------
(* bookTxn, phases 2 and 3: applying the planned operations. *)

(* Sum of a field of the planned operations of one kind on lot (a, c), over *)
(* the first upto postings.                                                 *)
Net(t, plan, kind, fld, a, c, upto) ==
    RSum([i \in 1..upto |->
            IF t.postings[i].acct = a /\ plan.ops[i][c].kind = kind
            THEN plan.ops[i][c][fld] ELSE Zero])

(* Mutant: every sale is compared with the lot alone, not with the others. *)
MutOversold(e, t, plan) ==
    {k \in Accounts \X Commodities :
        \E i \in DOMAIN t.postings :
            LET op == plan.ops[i][k[2]]
            IN  /\ t.postings[i].acct = k[1] /\ op.kind = "sell"
                /\ ~RLe(op.units, RAdd(e.inv[k[1]][k[2]].units,
                            Net(t, plan, "buy", "units", k[1], k[2], Len(t.postings))))}

(* Lots the transaction as a whole would take more from than there is. *)
Oversold(e, t, plan) ==
    LET n == Len(t.postings)
    IN  {k \in Accounts \X Commodities :
            LET sell == Net(t, plan, "sell", "units", k[1], k[2], n)
                have == RAdd(e.inv[k[1]][k[2]].units,
                             Net(t, plan, "buy", "units", k[1], k[2], n))
            IN  RPositive(sell) /\ ~RLe(sell, have)}

(* The explicit buys of lot (a, c) among the first upto postings. *)
BuysOf(t, plan, a, c, upto) ==
    {i \in Given(t) \cap 1..upto : t.postings[i].acct = a /\ plan.ops[i][c].kind = "buy"}

(* The cost commodity of lot (a, c) once the first upto postings' buys are in. *)
CostCommAfter(e, t, plan, a, c, upto) ==
    LET buys == BuysOf(t, plan, a, c, upto)
    IN  IF buys = {} THEN e.inv[a][c].costComm ELSE plan.ops[Max(buys)][c].costComm

(* Posting i buys at a cost in another commodity than the lot then has. *)
CostCommMismatch(e, t, plan, i) ==
    LET a    == t.postings[i].acct
        c    == t.postings[i].units.comm
        held == RAdd(e.inv[a][c].units, Net(t, plan, "buy", "units", a, c, i - 1))
        comm == CostCommAfter(e, t, plan, a, c, i - 1)
    IN  /\ i \in Given(t) /\ plan.ops[i][c].kind = "buy"
        /\ comm # NoComm /\ comm # plan.ops[i][c].costComm /\ held # Zero

(* Inventory after the buys of the first upto postings. *)
InvAfterBuys(e, t, plan, upto) ==
    [a \in Accounts |-> [c \in Commodities |->
        [units    |-> RAdd(e.inv[a][c].units, Net(t, plan, "buy", "units", a, c, upto)),
         cost     |-> RAdd(e.inv[a][c].cost, Net(t, plan, "buy", "total", a, c, upto)),
         costComm |-> CostCommAfter(e, t, plan, a, c, upto)]]]

(* Mutant: a sold-out lot keeps what the average did not account for. *)
MutInvAfterSells(inv, t, plan) ==
    [a \in Accounts |-> [c \in Commodities |->
        LET n == Len(t.postings)
        IN  [inv[a][c] EXCEPT
                !.units = RSub(@, Net(t, plan, "sell", "units", a, c, n)),
                !.cost  = RSub(@, Net(t, plan, "sell", "total", a, c, n))]]]

(* inv after every sale; a lot that is sold out keeps no cost. *)
InvAfterSells(inv, t, plan) ==
    [a \in Accounts |-> [c \in Commodities |->
        LET n     == Len(t.postings)
            units == Net(t, plan, "sell", "units", a, c, n)
            left  == RSub(inv[a][c].units, units)
        IN  [inv[a][c] EXCEPT
                !.units = left,
                !.cost  = IF left = Zero /\ units # Zero THEN Zero
                          ELSE RSub(@, Net(t, plan, "sell", "total", a, c, n))]]]

(* Mutant: two legs on one account overwrite instead of adding up. *)
MutAddBal(bal, legs) ==
    [a \in Accounts |-> [c \in Commodities |->
        LET mine == {i \in DOMAIN legs : legs[i].acct = a}
        IN  IF mine = {} THEN bal[a][c] ELSE RAdd(bal[a][c], legs[Max(mine)].amts[c])]]

(* bal plus the amounts of the legs of a booked transaction. *)
AddBal(bal, legs) ==
    [a \in Accounts |-> [c \in Commodities |->
        RAdd(bal[a][c], RSum([i \in DOMAIN legs |->
                                IF legs[i].acct = a THEN legs[i].amts[c] ELSE Zero]))]]

Legs(t, plan) ==
    [i \in DOMAIN t.postings |-> [acct |-> t.postings[i].acct, amts |-> plan.amts[i],
                                  basis |-> plan.basis[i]]]

(* Mutant: the lots are left alone but the balances are booked. *)
MutSkipOversell(e, t) ==
    [Report(e, {Warn(t.line, "oversell", NoComm)})
        EXCEPT !.bal = AddBal(@, Legs(t, Plan(e, t)))]

(* An oversell is a warning: the transaction is left out, nothing applied. *)
SkipOversell(e, t) == Report(e, {Warn(t.line, "oversell", NoComm)})

(* The operations of a plan without those of the residual leg, which come  *)
(* after all the explicit ones.                                            *)
ExplicitOnly(t, plan) ==
    [plan EXCEPT !.ops = [i \in DOMAIN t.postings |->
        IF i \in Given(t) THEN plan.ops[i] ELSE [c \in Commodities |-> NoOp]]]

(* Applying a plan, buys first, unless the inventory refuses it. *)
ApplyPlan(e, t, plan) ==
    LET clashes == {i \in Given(t) : CostCommMismatch(e, t, plan, i)}
        reject(first) ==
            [Report(e, {Error(t.line, "cost commodity mismatch", t.postings[first].acct)})
                EXCEPT !.inv = InvAfterBuys(e, t, ExplicitOnly(t, plan), first - 1)]
    IN  IF Oversold(e, t, plan) # {} THEN SkipOversell(e, t)
        ELSE IF clashes # {} THEN reject(Min(clashes))
        ELSE [e EXCEPT
                !.inv  = InvAfterSells(InvAfterBuys(e, t, plan, Len(t.postings)), t, plan),
                !.bal  = AddBal(@, Legs(t, plan)),
                !.txns = Append(@, [date |-> t.date, line |-> t.line, flag |-> t.flag,
                                    legs |-> Legs(t, plan)])]

Unbalanced(t, plan) ==
    IF Residual(t) # {} THEN {} ELSE {Error(t.line, "unbalanced transaction", c) : c \in plan.off}

(* The first faulty posting ends the booking; without one, a transaction   *)
(* that does not balance is reported and booked all the same.              *)
BookTxn(e, t) ==
    LET faulty == {i \in DOMAIN t.postings : PostingErrors(e, t, i) # {}}
        upto(n) == Report(e, UNION {CheckAccount(e, t.date, t.postings[i].acct, t.line) : i \in 1..n})
        stop(first) == Report(upto(first), PostingErrors(e, t, first))
        apply(plan) == ApplyPlan(Report(upto(Len(t.postings)), Unbalanced(t, plan)), t, plan)
    IN  IF faulty # {} THEN stop(Min(faulty)) ELSE apply(Plan(e, t))

----------------------------------------------------------------------------
(* bookBalance: the assertion, and the pad it may trigger. *)

(* Mutant: a balance above the asserted one passes. *)
MutAssertionHolds(e, b) == RLe(RSub(b.n, e.bal[b.acct][b.comm]), e.tol[b.comm])

AssertionHolds(e, b) == RWithin(b.n, e.bal[b.acct][b.comm], e.tol[b.comm])

ClearPad(e, a) == [e EXCEPT !.pad[a] = NoPad]

PadLeg(a, c, n) ==
    [acct |-> a, amts |-> [k \in Commodities |-> IF k = c THEN n ELSE Zero], basis |-> NoBasis]

PadEntry(pad, b, diff) ==
    [date |-> pad.date, line |-> pad.line, flag |-> "P",
     legs |-> <<PadLeg(b.acct, b.comm, diff), PadLeg(pad.from, b.comm, RNeg(diff))>>]

(* Posts the missing amount from the pad's source; balances only, no lots. *)
ApplyPad(e, b) ==
    LET pad   == e.pad[b.acct]
        entry == PadEntry(pad, b, RSub(b.n, e.bal[b.acct][b.comm]))
    IN  ClearPad([Report(e, CheckAccount(e, b.date, pad.from, b.line)) EXCEPT
                    !.bal = AddBal(@, entry.legs), !.txns = Append(@, entry)], b.acct)

BookBalance(e, b) ==
    LET settle(padded) ==
            IF AssertionHolds(padded, b) THEN padded
            ELSE Report(padded, {Error(b.line, "balance failed", b.acct)})
    IN  IF AssertionHolds(e, b) THEN ClearPad(e, b.acct)
        ELSE settle(IF e.pad[b.acct] = NoPad THEN e ELSE ApplyPad(e, b))

(* One step of Book's loop over the sorted directives. *)
BookDirective(e, d) ==
    CASE d.kind = "open"    -> BookOpen(e, d)
      [] d.kind = "close"   -> BookClose(e, d)
      [] d.kind = "txn"     -> BookTxn(e, d)
      [] d.kind = "balance" -> BookBalance(e, d)
      [] d.kind = "pad"     -> BookPad(e, d)
      [] d.kind = "note"    -> [e EXCEPT !.notes = @ \cup {d.line}]
      [] d.kind = "event"   -> [e EXCEPT !.events = @ \cup {d.line}]
      [] OTHER              -> e
=============================================================================
