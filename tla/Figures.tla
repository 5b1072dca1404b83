------------------------------ MODULE Figures ------------------------------
(***************************************************************************)
(* The browser's pure computations: the IBAN checksum, the page numbers of *)
(* a pager, the sums behind the monthly chart and the wallet figures.      *)
(* Every state is one input; each is compared with a reference definition. *)
(***************************************************************************)
EXTENDS Integers, Sequences, FiniteSets, SequencesExt, FiniteSetsExt

CONSTANTS
    Digits, MaxDigits,          \* bound: the digit strings that are checked
    ChunkLength,                \* 9 in the code; small here, as the strings are
    Modulus,                    \* 97
    MaxPages,                   \* bound: pages of a pager
    Months, Sums, MaxRows,      \* bound: rows of the money-flow query
    Currencies, MaxAccounts,    \* bound: accounts of a wallet
    Worth                       \* what one unit of each currency is worth

FiguresAssumption ==
    /\ Digits \subseteq 0..9 /\ Months \subseteq Nat /\ Sums \subseteq Nat
    /\ ChunkLength \in Nat \ {0} /\ Modulus \in Nat \ {0}
    /\ MaxPages \in Nat
    /\ "USD" \in Currencies /\ Worth \in [Currencies -> Nat \ {0}]

VARIABLE input

-----------------------------------------------------------------------------
(* validateIban: the digits modulo 97, in chunks that a number can hold. *)

\* The number that reads v and then the digits.
Written(v, digits) == FoldLeft(LAMBDA w, d : 10 * w + d, v, digits)

ValueOf(digits) == Written(0, digits)

\* match(/.{1,9}/g): the last chunk may be shorter.
Chunks(digits) ==
    [i \in 1..((Len(digits) + ChunkLength - 1) \div ChunkLength) |->
        SubSeq(digits, (i - 1) * ChunkLength + 1,
               IF i * ChunkLength < Len(digits) THEN i * ChunkLength ELSE Len(digits))]

\* Regression: the remainder is shifted by a full chunk, also before a short one.
RemainderPadded(digits) ==
    FoldLeft(LAMBDA r, chunk : (r * 10^ChunkLength + ValueOf(chunk)) % Modulus,
             0, Chunks(digits))

\* parseInt(`${remainder}${chunk}`) % 97
Remainder(digits) ==
    FoldLeft(LAMBDA r, chunk : Written(r, chunk) % Modulus, 0, Chunks(digits))

-----------------------------------------------------------------------------
(* pageRange: the numbers a pager shows; 0 stands for an ellipsis. *)

Gap == 0

\* Regression: an ellipsis although no page is hidden.
PageRangeOffByOne(current, total) ==
    LET left == IF current - 1 > 2 THEN current - 1 ELSE 2
        right == IF current + 1 < total - 1 THEN current + 1 ELSE total - 1
    IN IF total <= 7 THEN [i \in 1..total |-> i]
       ELSE <<1>> \o (IF left > 1 THEN <<Gap>> ELSE <<>>)
                  \o [i \in 1..(right - left + 1) |-> left + i - 1]
                  \o (IF right < total - 1 THEN <<Gap>> ELSE <<>>) \o <<total>>

PageRange(current, total) ==
    LET left == IF current - 1 > 2 THEN current - 1 ELSE 2
        right == IF current + 1 < total - 1 THEN current + 1 ELSE total - 1
    IN IF total <= 7 THEN [i \in 1..total |-> i]
       ELSE <<1>> \o (IF left > 2 THEN <<Gap>> ELSE <<>>)
                  \o [i \in 1..(right - left + 1) |-> left + i - 1]
                  \o (IF right < total - 1 THEN <<Gap>> ELSE <<>>) \o <<total>>

-----------------------------------------------------------------------------
(* The monthly chart: the days of the money-flow query, summed by month. *)

NoMonths == [m \in {} |-> [income |-> 0, expense |-> 0]]
SumsOf(months, m) ==
    IF m \in DOMAIN months THEN months[m] ELSE [income |-> 0, expense |-> 0]

\* Regression: a later day of a month replaces the earlier ones.
MonthlyOverwritten(rows) ==
    FoldLeft(LAMBDA months, row :
                 [m \in DOMAIN months \cup {row.month} |->
                     IF m = row.month THEN [income |-> row.in, expense |-> row.out]
                     ELSE months[m]],
             NoMonths, rows)

\* The months so far, with one more day.
WithDay(months, row) ==
    [m \in DOMAIN months \cup {row.month} |->
        IF m = row.month
        THEN [income |-> SumsOf(months, m).income + row.in,
              expense |-> SumsOf(months, m).expense + row.out]
        ELSE months[m]]

Monthly(rows) == FoldLeft(WithDay, NoMonths, rows)

-----------------------------------------------------------------------------
(* The wallets page: a total over all accounts, and one line per currency. *)

TotalBalance(accounts) == FoldLeft(LAMBDA sum, a : sum + a.balance, 0, accounts)

\* The total is formatted as this currency.
TotalCurrency == "USD"

NoCurrencies == [c \in {} |-> 0]

\* The table so far, with one more account.
WithAccount(table, a) ==
    [c \in DOMAIN table \cup {a.currency} |->
        IF c # a.currency THEN table[c]
        ELSE a.balance + (IF c \in DOMAIN table THEN table[c] ELSE 0)]

ByCurrency(accounts) == FoldLeft(WithAccount, NoCurrencies, accounts)

-----------------------------------------------------------------------------
(* Inputs *)

SeqsUpTo(S, n) == UNION {[1..k -> S] : k \in 0..n}
MoneyRow == [month : Months, in : Sums, out : Sums]
Account == [currency : Currencies, balance : Sums]

Init == input = [of |-> "none"]

Iban == \E d \in SeqsUpTo(Digits, MaxDigits) : input' = [of |-> "iban", digits |-> d]
Pager == \E total \in 1..MaxPages : \E current \in 1..(total + 2) :
             input' = [of |-> "pager", current |-> current, total |-> total]
MonthlyChart == \E rows \in SeqsUpTo(MoneyRow, MaxRows) :
                    input' = [of |-> "monthly", rows |-> rows]
Wallets == \E accounts \in SeqsUpTo(Account, MaxAccounts) :
               input' = [of |-> "wallets", accounts |-> accounts]

Next == input.of = "none" /\ (Iban \/ Pager \/ MonthlyChart \/ Wallets)
Spec == Init /\ [][Next]_input

-----------------------------------------------------------------------------
(* Properties *)

\* The checksum taken chunk by chunk is the remainder of the whole number.
ChecksumIsRemainder ==
    input.of = "iban" => Remainder(input.digits) = ValueOf(input.digits) % Modulus

\* A pager leads everywhere: first, last, current and neighbouring pages are
\* there, numbers ascend, and an ellipsis stands exactly where pages are
\* hidden, also when the current page has gone past the end.
PagerLeadsEverywhere ==
    input.of = "pager" =>
        LET pages == PageRange(input.current, input.total)
            numbered == {i \in DOMAIN pages : pages[i] # Gap}
        IN /\ {1, input.total} \subseteq ToSet(pages)
           /\ {input.current - 1, input.current, input.current + 1} \cap 1..input.total
                  \subseteq ToSet(pages)
                  \/ input.current > input.total
           /\ \A i, j \in numbered : i < j => pages[i] < pages[j]
           /\ \A i \in 1..(Len(pages) - 1) :
                  i \in numbered => IF pages[i + 1] = Gap
                                    THEN pages[i + 2] > pages[i] + 1
                                    ELSE pages[i + 1] = pages[i] + 1

SumWhere(s, Test(_), Value(_)) ==
    SumFunctionOnSet([i \in DOMAIN s |-> Value(s[i])], {i \in DOMAIN s : Test(s[i])})

\* The chart has a bar for each month with a row, and its bars hold the sums
\* of all rows of the month.
MonthlyAddsUp ==
    input.of = "monthly" =>
        LET months == Monthly(input.rows) IN
        /\ DOMAIN months = {input.rows[i].month : i \in DOMAIN input.rows}
        /\ \A m \in DOMAIN months :
               LET ofMonth(row) == row.month = m
                   income(row) == row.in
                   expense(row) == row.out
               IN /\ months[m].income = SumWhere(input.rows, ofMonth, income)
                  /\ months[m].expense = SumWhere(input.rows, ofMonth, expense)

Held(accounts, currency) ==
    LET ofCurrency(a) == a.currency = currency
        balanceOf(a) == a.balance
    IN SumWhere(accounts, ofCurrency, balanceOf)

\* The currency table shows, for each currency, what its accounts hold.
CurrencyTableAddsUp ==
    input.of = "wallets" =>
        LET table == ByCurrency(input.accounts) IN
        \A c \in Currencies :
            Held(input.accounts, c) = (IF c \in DOMAIN table THEN table[c] ELSE 0)

-----------------------------------------------------------------------------
(* Known not to hold; see the README *)

\* "Total Balance", printed in dollars, is what the accounts are worth in
\* dollars: money in another currency does not count at its face value.
TotalIsInItsCurrency ==
    input.of = "wallets" =>
        LET worth(a) == a.balance * Worth[a.currency]
            any(a) == TRUE
        IN TotalBalance(input.accounts) * Worth[TotalCurrency]
               = SumWhere(input.accounts, any, worth)
=============================================================================
