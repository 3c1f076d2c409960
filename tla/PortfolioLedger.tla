--------------------------- MODULE PortfolioLedger --------------------------
(***************************************************************************)
(* The transactions of one coin and what is computed from them             *)
(* (CryptoPortfolioTracker.jsx): the position by average cost, the balance *)
(* at a time, the profit of a period, and the import of CSV files.  Coins  *)
(* are computed one by one, so one is enough.  Money and amounts are whole *)
(* numbers, chosen so that every average is one.                           *)
(*                                                                         *)
(* The form of a transaction in CryptoPortfolioTracker.jsx: the amount,    *)
(* the price and the total that fill each other in, and the list that it   *)
(* changes.  A field is Empty or a number.                                 *)
(***************************************************************************)
EXTENDS Integers, Sequences, FiniteSets, SequencesExt, Naturals

CONSTANTS Amounts, Prices, Fees,         \* what the fields of a transaction may hold
          LastDay,                       \* its date is 1 .. LastDay
          Imported,                      \* the amounts of the files that are imported
          MaxTransactions,               \* bound: transactions at a time
          Habits   \* what the user does: "backdate" enters a transaction before the last one,
                   \* "change" edits or deletes what a later sale needs, "twice" imports a file
                   \* while an import is under way, "dear" a sale whose fee exceeds its price

LedgerAssumption ==
  /\ \A s \in {Amounts, Prices, Fees, Imported} : IsFiniteSet(s) /\ s \subseteq Nat
  /\ LastDay \in Nat \ {0} /\ MaxTransactions \in Nat /\ Habits \subseteq {"backdate", "change", "twice", "dear"}

VARIABLES
  transactions,   \* in the order of entry
  importing       \* the imports that wait for coin ids: [rows, known]

ledgerVars == <<transactions, importing>>
Days == 1 .. LastDay

\* A transaction that the user has edited is no longer one of the file.
Transactions == [type : {"buy", "sell"}, amount : Amounts, price : Prices, fee : Fees,
                 date : Days, imported : BOOLEAN]

TypeOK ==
  /\ transactions \in BoundedSeq(Transactions, MaxTransactions)
  /\ \A i \in importing : i.rows \subseteq Transactions /\ i.known \subseteq Transactions

Init == transactions = <<>> /\ importing = {}

-----------------------------------------------------------------------------
(* What the page computes. *)

Least(a, b) == IF a <= b THEN a ELSE b
Positive(a) == IF a > 0 THEN a ELSE 0

Sum(of(_), s) ==
  LET total[i \in 0 .. Len(s)] == IF i = 0 THEN 0 ELSE total[i - 1] + of(s[i]) IN total[Len(s)]

InDateOrder(s) ==     \* a stable sort
  LET until[d \in 0 .. LastDay] ==
        IF d = 0 THEN <<>> ELSE until[d - 1] \o SelectSeq(s, LAMBDA t : t.date = d) IN
    until[LastDay]

NoPosition == [amount |-> 0, totalCost |-> 0, realized |-> 0, bought |-> 0, sold |-> 0]

\* Mutant: the fee of a purchase is not part of what it cost.
BuyWithoutFee(p, t) ==
  [p EXCEPT !.amount = @ + t.amount, !.totalCost = @ + t.amount * t.price,
            !.bought = @ + t.amount * t.price + t.fee]

Buy(p, t) ==
  [p EXCEPT !.amount = @ + t.amount, !.totalCost = @ + t.amount * t.price + t.fee,
            !.bought = @ + t.amount * t.price + t.fee]

\* At most what is held is sold, at its average cost.
Sell(p, t) ==
  LET sold     == Least(t.amount, p.amount)
      basis    == IF p.amount > 0 THEN (p.totalCost * sold) \div p.amount ELSE 0
      proceeds == Positive(sold * t.price - t.fee) IN
    [p EXCEPT !.amount = @ - sold, !.totalCost = Positive(@ - basis),
              !.realized = @ + proceeds - basis, !.sold = @ + proceeds]

\* buildPositionStats
PositionOf(s) ==
  LET sorted == InDateOrder(s)
      after[i \in 0 .. Len(s)] ==
        IF i = 0 THEN NoPosition
        ELSE IF sorted[i].type = "sell" THEN Sell(after[i - 1], sorted[i])
        ELSE Buy(after[i - 1], sorted[i]) IN
    after[Len(s)]

\* computeHoldingsAtTime
BalanceAt(s, day) ==
  Sum(LAMBDA t : IF t.type = "sell" THEN -t.amount ELSE t.amount,
      SelectSeq(s, LAMBDA t : t.date <= day))

\* holdings: what the list shows at a price, nothing of a coin that is sold out.
ProfitShown(price) ==
  LET p == PositionOf(transactions) IN
    (IF p.amount > 0 THEN p.amount * price - p.totalCost ELSE 0) + p.realized

\* periodPerformance: the value at its end less the one before it began, less what was
\* paid in it, plus what came back.
InPeriod(t, first, last) == first <= t.date /\ t.date <= last

PeriodProfit(price, first, last, endingValue) ==
  LET in      == SelectSeq(transactions, LAMBDA t : InPeriod(t, first, last))
      cashIn  == Sum(LAMBDA t : IF t.type = "buy" THEN t.amount * t.price + t.fee ELSE 0, in)
      cashOut == Sum(LAMBDA t : IF t.type = "sell" THEN t.amount * t.price - t.fee ELSE 0, in) IN
    endingValue - BalanceAt(transactions, first - 1) * price - (cashIn - cashOut)

ProfitOfAllTime(price) ==
  LET p == PositionOf(transactions) IN
    PeriodProfit(price, 1, LastDay, IF p.amount > 0 THEN p.amount * price ELSE 0)

\* Mutant: the first day of a period is left out.
RangeAfter(first, last) == first + 1

\* getProfitPeriodRange: the first of the days.
RangeStart(first, last) == first

ProfitOfPeriod(price, first, last) ==
  PeriodProfit(price, RangeStart(first, last), last, BalanceAt(transactions, last) * price)

-----------------------------------------------------------------------------
(* What the user does. *)

Held == PositionOf(transactions).amount

\* A sale that is edited gives back what it sold.
Returned(i) == IF i # 0 /\ transactions[i].type = "sell" THEN transactions[i].amount ELSE 0

\* Mutant: any amount may be sold.
SellableAlways(t, i) == TRUE

\* "i" is the transaction that the form edits, 0 when it is for a new one.
Sellable(t, i) == t.type = "buy" \/ t.amount <= Held + Returned(i)

Usual(t, others) ==
  /\ "backdate" \in Habits \/ \A o \in others : o.date <= t.date
  /\ "dear" \in Habits \/ t.type = "buy" \/ t.fee <= t.amount * t.price

AddTransaction(t) ==
  /\ Len(transactions) < MaxTransactions /\ ~t.imported
  /\ Sellable(t, 0) /\ Usual(t, ToSet(transactions))
  /\ transactions' = Append(transactions, t) /\ UNCHANGED importing

\* What was entered last is not what a later sale needs.
MayChange(i) == "change" \in Habits \/ i = Len(transactions)

UpdateTransaction(i, t) ==
  /\ MayChange(i) /\ ~t.imported /\ Sellable(t, i)
  /\ "change" \in Habits \/ t.type = transactions[i].type
  /\ Usual(t, {transactions[k] : k \in 1 .. i - 1})
  /\ transactions' = [transactions EXCEPT ![i] = t] /\ UNCHANGED importing

DeleteTransaction(i) ==
  /\ MayChange(i) /\ transactions' = RemoveAt(transactions, i) /\ UNCHANGED importing

-----------------------------------------------------------------------------
(* handleImportTransactionsCsv. *)

\* The rows of a file that are transactions; an import checks no balance, so a usual file
\* only buys.  The list is the one of this moment.
BeginImport(rows) ==
  /\ importing = {} \/ "twice" \in Habits
  /\ importing' = importing \cup {[rows |-> rows, known |-> ToSet(transactions)]}
  /\ UNCHANGED transactions

KeyOf(t) == [type |-> t.type, amount |-> t.amount, price |-> t.price, date |-> t.date]

\* Mutant: only the rows of the file are compared.
NewRowsOfFile(i) == i.rows

NewRows(i) == {t \in i.rows : KeyOf(t) \notin {KeyOf(k) : k \in i.known}}

EndImport(i) ==
  /\ Len(transactions) + Cardinality(NewRows(i)) <= MaxTransactions
  /\ transactions' = transactions \o SetToSeq(NewRows(i)) /\ importing' = importing \ {i}

ImportedFiles == {{t} : t \in {r \in Transactions : r.imported /\ r.type = "buy" /\ r.amount \in Imported}}

Next ==
  \/ \E t \in Transactions : AddTransaction(t)
  \/ \E i \in DOMAIN transactions :
       DeleteTransaction(i) \/ \E t \in Transactions : UpdateTransaction(i, t)
  \/ \E rows \in ImportedFiles : BeginImport(rows)
  \/ \E i \in importing : EndImport(i)


-----------------------------------------------------------------------------
(* Properties. *)

\* Two computations of the profit agree at every price, and two of the amount: what the
\* list shows is what the chart and the period add up.
ComputationsAgree ==
  /\ \A price \in Prices : ProfitShown(price) = ProfitOfAllTime(price)
  /\ \A day \in Days : (\A t \in ToSet(transactions) : t.date <= day) =>
       Held = BalanceAt(transactions, day)

\* A period and the one after it add up to both, and all of them to all time.
PeriodsAddUp ==
  \A price \in Prices, day \in Days :
    day < LastDay => ProfitOfPeriod(price, 1, day) + ProfitOfPeriod(price, day + 1, LastDay)
                       = ProfitOfAllTime(price)

\* No imported row is there twice.
ImportedOnce ==
  LET imported == SelectSeq(transactions, LAMBDA t : t.imported) IN
    \A i, j \in DOMAIN imported : i # j => KeyOf(imported[i]) # KeyOf(imported[j])

LedgerAddsUp == ComputationsAgree /\ PeriodsAddUp /\ ImportedOnce

-----------------------------------------------------------------------------

CONSTANTS Symbols, Typed,     \* numbers that the user types, whose quotients are whole
          Priced, LastPrice,  \* the symbols that have a market price, and it
          Empty

FormAssumption ==
  /\ Typed \subseteq Nat \ {0} /\ Empty \notin Nat
  /\ Priced \subseteq Symbols /\ LastPrice \in Nat \ {0}

VARIABLES
  txSymbol, txAmount, txPrice, txTotalSpent,
  editing,    \* editingTxId: the form is for the transaction of the list
  showing,    \* showTxModal
  first       \* the transaction: [symbol, amount, price], or Empty

formVars == <<txSymbol, txAmount, txPrice, txTotalSpent, editing, showing, first>>

FormTypeOK ==
  /\ txSymbol \in Symbols /\ showing \in BOOLEAN /\ editing \in BOOLEAN
  /\ \A f \in {txAmount, txPrice, txTotalSpent} : f = Empty \/ f \in Nat
  /\ first = Empty \/ first \in [symbol : Symbols, amount : Nat, price : Nat]

FormInit ==
  /\ txSymbol \in Symbols /\ txAmount = Empty /\ txPrice = Empty /\ txTotalSpent = Empty
  /\ editing = FALSE /\ showing = FALSE /\ first = Empty

\* Number(''): an empty field is zero.
Number(f) == IF f = Empty THEN 0 ELSE f

MarketPrice(symbol) == IF symbol \in Priced THEN LastPrice ELSE Empty

FieldValues == Typed \cup {Empty}

-----------------------------------------------------------------------------
\* The effect of a new symbol: its price is filled in, unless a transaction is edited.
Prefilled(symbol, isEdit, amount, price, total) ==
  IF symbol # txSymbol /\ ~isEdit /\ MarketPrice(symbol) # Empty
  THEN /\ txPrice' = MarketPrice(symbol)
       /\ txTotalSpent' = IF Number(amount) > 0 THEN amount * MarketPrice(symbol) ELSE total
  ELSE txPrice' = price /\ txTotalSpent' = total

OpenAddTransaction(symbol) ==
  /\ ~showing /\ showing' = TRUE /\ txSymbol' = symbol /\ txAmount' = Empty /\ editing' = FALSE
  /\ Prefilled(symbol, FALSE, Empty, MarketPrice(symbol), Empty)
  /\ UNCHANGED first

OpenEditTransaction ==
  /\ ~showing /\ first # Empty /\ showing' = TRUE /\ editing' = TRUE
  /\ txSymbol' = first.symbol /\ txAmount' = first.amount /\ txPrice' = first.price
  /\ txTotalSpent' = first.amount * first.price /\ UNCHANGED first

ChangeSymbol(symbol) ==
  /\ showing /\ txSymbol' = symbol
  /\ Prefilled(symbol, editing, txAmount, txPrice, txTotalSpent)
  /\ UNCHANGED <<txAmount, editing, showing, first>>

\* An empty price is the number zero, so the total is always computed anew.
AmountChange(amount) ==
  /\ showing /\ txAmount' = amount
  /\ txTotalSpent' = IF Number(amount) > 0 THEN amount * Number(txPrice) ELSE txTotalSpent
  /\ UNCHANGED <<txSymbol, txPrice, editing, showing, first>>

\* Mutant: the total stays what it was.
TotalKept(price) == txTotalSpent

TotalFor(price) == IF Number(txAmount) > 0 THEN txAmount * Number(price) ELSE txTotalSpent

PriceChange(price) ==
  /\ showing /\ txPrice' = price /\ txTotalSpent' = TotalFor(price)
  /\ UNCHANGED <<txSymbol, txAmount, editing, showing, first>>

TotalSpentChange(total) ==
  /\ showing /\ txTotalSpent' = total
  /\ Number(txAmount) > 0 => Number(total) % txAmount = 0
  /\ Number(txAmount) = 0 /\ Number(txPrice) > 0 => Number(total) % txPrice = 0
  /\ txPrice' = IF Number(txAmount) > 0 THEN Number(total) \div txAmount ELSE txPrice
  /\ txAmount' = IF Number(txAmount) = 0 /\ Number(txPrice) > 0
                 THEN Number(total) \div txPrice ELSE txAmount
  /\ UNCHANGED <<txSymbol, editing, showing, first>>

\* handleAddTransaction; the list is followed in one transaction.
Submit ==
  /\ showing /\ Number(txAmount) > 0 /\ txPrice # Empty
  /\ editing \/ first = Empty
  /\ first' = [symbol |-> txSymbol, amount |-> txAmount, price |-> txPrice]
  /\ showing' = FALSE /\ editing' = FALSE
  /\ txAmount' = Empty /\ txPrice' = Empty /\ txTotalSpent' = Empty /\ UNCHANGED txSymbol

\* The fields stay as they are.
Cancel ==
  /\ showing /\ showing' = FALSE /\ editing' = FALSE
  /\ UNCHANGED <<txSymbol, txAmount, txPrice, txTotalSpent, first>>

FormNext ==
  \/ \E s \in Symbols : OpenAddTransaction(s) \/ ChangeSymbol(s)
  \/ \E f \in FieldValues : AmountChange(f) \/ PriceChange(f) \/ TotalSpentChange(f)
  \/ OpenEditTransaction \/ Submit \/ Cancel


-----------------------------------------------------------------------------
\* Whatever is typed in which order, and over symbols, edits and closed forms: what the
\* form shows to be bought for the total is what is entered.
FormAddsUp ==
  showing /\ Number(txAmount) > 0 /\ txPrice # Empty /\ txTotalSpent # Empty =>
    txAmount * txPrice = txTotalSpent
=============================================================================
