----------------------------- MODULE BankProofs -----------------------------
(***************************************************************************)
(* The bank holds what its logs promise, for any accounts, tokens and      *)
(* depth of calls.                                                         *)
(***************************************************************************)
EXTENDS Bank, SequenceTheorems, TLAPS

Zero == [a \in Assets |-> 0]

(* Each call records the withdrawals under it.                             *)
Chained ==
    /\ calls # <<>> => calls[1].under = Zero
    /\ \A i \in 2..Len(calls) : calls[i].under = Including(calls[i - 1])

BankInv == TypeOK /\ Chained /\ Custody

(***************************************************************************)
(* Data.                                                                   *)
(***************************************************************************)
LEMMA TopType ==
    ASSUME TypeOK, calls # <<>>
    PROVE  /\ Len(calls) \in Nat \ {0}
           /\ Top \in Calls
BY DEF TypeOK, Top

LEMMA CallType ==
    ASSUME NEW c \in Calls
    PROVE  /\ c.under \in [Assets -> Nat]
           /\ c.asset \in Assets
           /\ c.amount \in Nat
           /\ c.fn = "deposit" => c.asset \in Tokens /\ c.from \in Accounts
BY DEF Calls, DepositCalls, WithdrawCalls, Assets

LEMMA IncludingType ==
    ASSUME NEW c \in Calls
    PROVE  Including(c) \in [Assets -> Nat]
BY CallType DEF Including

LEMMA LeavingType ==
    ASSUME TypeOK
    PROVE  Leaving \in [Assets -> Nat]
<1>1. CASE calls = <<>>
  BY <1>1 DEF Leaving
<1>2. CASE calls # <<>>
  BY <1>2, TopType, IncludingType DEF Leaving
<1> QED BY <1>1, <1>2

(* A call that returns leaves the withdrawals that were under it.          *)
LEMMA ReturnEffect ==
    ASSUME TypeOK, Chained, calls # <<>>, Return
    PROVE  /\ calls' \in Seq(Calls)
           /\ Chained'
           /\ Leaving' = Top.under
<1> DEFINE n == Len(calls)
<1>1. n \in Nat /\ n > 0 /\ n = Len(calls) /\ calls \in Seq(Calls)
  BY TopType DEF TypeOK
<1>2. Leaving = Including(calls[n]) /\ Top = calls[n]
  BY DEF Leaving, Top
<1>3. calls' = SubSeq(calls, 1, n - 1)
  BY DEF Return
<1>4. /\ calls[1].under = Zero
      /\ \A i \in 2..n : calls[i].under = Including(calls[i - 1])
  BY DEF Chained
<1> HIDE DEF n
<1>5. /\ calls' \in Seq(Calls)
      /\ Len(calls') = n - 1
      /\ \A i \in 1..(n - 1) : calls'[i] = calls[i]
  <2>1. \A i \in 1..(n - 1) : calls[i] \in Calls
    BY <1>1
  <2>2. 1 \in Int /\ n - 1 \in Int
    BY <1>1
  <2>4. /\ SubSeq(calls, 1, n - 1) \in Seq(Calls)
        /\ Len(SubSeq(calls, 1, n - 1)) = IF 1 <= n - 1 THEN (n - 1) - 1 + 1 ELSE 0
        /\ \A i \in 1..((n - 1) - 1 + 1) : SubSeq(calls, 1, n - 1)[i] = calls[1 + i - 1]
    BY <2>1, <2>2, SubSeqProperties
  <2>5. \A i \in 1..(n - 1) : calls'[i] = calls[i]
    BY <1>1, <1>3, <2>4
  <2>6. (IF 1 <= n - 1 THEN (n - 1) - 1 + 1 ELSE 0) = n - 1
    BY <1>1
  <2> QED BY <1>3, <2>4, <2>5, <2>6
<1>6. Chained'
  <2>1. n - 1 > 0 => calls'[1].under = Zero
    BY <1>1, <1>5, <1>4
  <2>2. ASSUME NEW i \in 2..(n - 1)
        PROVE  calls'[i].under = Including(calls'[i - 1])
    <3>1. calls[i].under = Including(calls[i - 1])
      BY <1>1, <1>4
    <3>2. i \in 1..(n - 1) /\ i - 1 \in 1..(n - 1)
      BY <1>1
    <3> QED BY <1>5, <3>1, <3>2
  <2> QED BY <1>1, <1>5, <2>1, <2>2 DEF Chained, Including
<1>7. ASSUME n = 1 PROVE Leaving' = Top.under
  <2>1. calls' = <<>>
    BY <1>1, <1>5, <1>7
  <2> QED BY <1>7, <1>2, <1>4, <2>1 DEF Leaving, Zero
<1>8. ASSUME n # 1 PROVE Leaving' = Top.under
  <2>1. calls' # <<>> /\ Len(calls') = n - 1 /\ n - 1 \in 1..(n - 1)
    BY <1>1, <1>5, <1>8
  <2>2. Top' = calls[n - 1]
    BY <1>5, <2>1 DEF Top
  <2>3. calls[n].under = Including(calls[n - 1])
    <3>1. n \in 2..n
      BY <1>1, <1>8
    <3> QED BY <3>1, <1>4
  <2>4. Leaving' = Including(calls[n - 1])
    BY <2>1, <2>2 DEF Leaving, Including
  <2> QED BY <1>2, <2>3, <2>4
<1> QED BY <1>5, <1>6, <1>7, <1>8

(* A call that is entered counts its own withdrawal, if it is one.         *)
LEMMA EnterEffect ==
    ASSUME TypeOK, Chained, NEW c \in Calls, c.under = Leaving, Enter(c)
    PROVE  /\ calls' \in Seq(Calls)
           /\ Chained'
           /\ Leaving' = Including(c)
<1> DEFINE m == Len(calls)
<1>2. calls \in Seq(Calls) /\ m \in Nat /\ calls' = Append(calls, c)
  BY DEF TypeOK, Enter
<1>3. /\ calls' \in Seq(Calls)
      /\ Len(calls') = m + 1
      /\ \A i \in 1..m : calls'[i] = calls[i]
      /\ calls'[m + 1] = c
      /\ calls' # <<>>
  BY <1>2
<1>4. Leaving = IF m = 0 THEN Zero ELSE Including(calls[m])
  BY <1>2 DEF Leaving, Top, Zero
<1>5. Chained'
  <2>1. calls'[1].under = Zero
    <3>1. CASE m = 0
      BY <1>3, <1>4, <3>1
    <3>2. CASE m # 0
      BY <1>2, <1>3, <3>2 DEF Chained
    <3> QED BY <3>1, <3>2
  <2>2. ASSUME NEW i \in 2..(m + 1)
        PROVE  calls'[i].under = Including(calls'[i - 1])
    <3>1. CASE i = m + 1
      <4>1. m # 0 /\ m \in 1..m
        BY <1>2, <3>1
      <4>2. calls'[i - 1] = calls[m] /\ calls'[i] = c
        BY <1>2, <1>3, <3>1, <4>1
      <4> QED BY <1>4, <4>1, <4>2
    <3>2. CASE i # m + 1
      <4>1. i \in 2..m /\ i \in 1..m /\ i - 1 \in 1..m
        BY <1>2, <3>2
      <4>2. calls[i].under = Including(calls[i - 1])
        BY <4>1 DEF Chained
      <4> QED BY <1>3, <4>1, <4>2
    <3> QED BY <3>1, <3>2
  <2> QED BY <1>3, <2>1, <2>2 DEF Chained, Including
<1>6. Leaving' = Including(c)
  BY <1>3 DEF Leaving, Top, Including
<1> QED BY <1>3, <1>5, <1>6

LEMMA CallsEntered ==
    ASSUME TypeOK, NEW n \in Nat
    PROVE  /\ \A a \in Tokens, from \in Accounts :
                  LET c == DepositCall(a, from, n) IN
                      c \in Calls /\ c.under = Leaving /\ Including(c) = Leaving
           /\ \A u \in Users, via \in {BankAccount, BridgeAccount}, a \in Assets, to \in Accounts :
                  LET c == WithdrawCall(u, via, a, to, n) IN
                      /\ c \in Calls /\ c.under = Leaving
                      /\ Including(c) = [b \in Assets |-> Leaving[b] + IF a = b THEN n ELSE 0]
<1>1. Leaving \in [Assets -> Nat] /\ BankAccount \in Accounts
  BY LeavingType DEF Accounts
<1>2. ASSUME NEW a \in Tokens, NEW from \in Accounts
      PROVE  LET c == DepositCall(a, from, n) IN
                 c \in Calls /\ c.under = Leaving /\ Including(c) = Leaving
  <2> DEFINE c == DepositCall(a, from, n)
  <2>1. c \in Calls
    BY <1>1 DEF DepositCall, Calls, DepositCalls, NoUser
  <2>2. c.fn = "deposit" /\ c.under = Leaving
    BY DEF DepositCall
  <2>3. Including(c) = [b \in Assets |-> Leaving[b] + 0]
    BY <2>2 DEF Including
  <2>4. \A b \in Assets : Leaving[b] + 0 = Leaving[b]
    BY <1>1
  <2>5. Including(c) = Leaving
    BY <1>1, <2>3, <2>4
  <2> QED BY <2>1, <2>2, <2>5
<1>3. ASSUME NEW u \in Users, NEW via \in {BankAccount, BridgeAccount}, NEW a \in Assets,
             NEW to \in Accounts
      PROVE  LET c == WithdrawCall(u, via, a, to, n) IN
                 /\ c \in Calls /\ c.under = Leaving
                 /\ Including(c) = [b \in Assets |-> Leaving[b] + IF a = b THEN n ELSE 0]
  <2> DEFINE c == WithdrawCall(u, via, a, to, n)
  <2>1. c \in Calls
    BY <1>1 DEF WithdrawCall, Calls, WithdrawCalls, NoUser
  <2>2. c.fn = "withdraw" /\ c.asset = a /\ c.amount = n /\ c.under = Leaving
    BY DEF WithdrawCall
  <2>3. Including(c) = [b \in Assets |-> Leaving[b] + IF a = b THEN n ELSE 0]
    BY <2>2 DEF Including
  <2> QED BY <2>1, <2>2, <2>3
<1> QED BY <1>2, <1>3

LEMMA MoveType ==
    ASSUME TypeOK, NEW a \in Assets, NEW u \in Accounts, NEW v \in Accounts, NEW n \in Nat,
           Move(a, u, v, n)
    PROVE  /\ balance' \in [Assets -> [Accounts -> Nat]]
           /\ \A b \in Assets \ {a} : balance'[b] = balance[b]
           /\ balance'[a][BankAccount] =
                balance[a][BankAccount]
                + (IF u # v /\ v = BankAccount THEN n ELSE 0)
                - (IF u # v /\ u = BankAccount THEN n ELSE 0)
<1>1. BankAccount \in Accounts /\ balance[a] \in [Accounts -> Nat]
  BY DEF TypeOK, Accounts
<1>2. CASE u = v
  <2>1. balance' = balance
    BY <1>2 DEF Move, TypeOK
  <2> QED BY <1>1, <1>2, <2>1 DEF TypeOK
<1>3. CASE u # v
  <2> DEFINE row == [balance[a] EXCEPT ![u] = balance[a][u] - n, ![v] = balance[a][v] + n]
  <2>1. balance[a][u] - n \in Nat /\ balance[a][v] + n \in Nat
    BY <1>1 DEF Move
  <2>2. balance' = [balance EXCEPT ![a] = row]
    BY <1>3 DEF Move
  <2>3. row \in [Accounts -> Nat]
    BY <1>1, <2>1
  <2>4. row[BankAccount] = balance[a][BankAccount] + (IF v = BankAccount THEN n ELSE 0)
                                                   - (IF u = BankAccount THEN n ELSE 0)
    BY <1>1, <1>3
  <2> HIDE DEF row
  <2>5. balance'[a] = row /\ \A b \in Assets \ {a} : balance'[b] = balance[b]
    BY <2>2 DEF TypeOK
  <2>6. balance' \in [Assets -> [Accounts -> Nat]]
    BY <2>2, <2>3 DEF TypeOK
  <2> QED BY <1>3, <2>4, <2>5, <2>6
<1> QED BY <1>2, <1>3

(***************************************************************************)
(* The invariant.                                                          *)
(***************************************************************************)
LEMMA SameCalls ==
    ASSUME TypeOK, Chained, UNCHANGED calls
    PROVE  calls' \in Seq(Calls) /\ Chained' /\ Leaving' = Leaving
BY DEF TypeOK, Chained, Leaving, Top, Including

LEMMA AmountType ==
    ASSUME NEW a, NEW n \in AmountsOf(a)
    PROVE  n \in Nat
BY BankAssumption DEF AmountsOf

LEMMA LogDepositEffect ==
    ASSUME TypeOK, NEW a \in Assets, NEW n \in Nat, NEW from, LogDeposit(a, from, n)
    PROVE  /\ index' \in [Kinds -> Nat]
           /\ deposited' = IF from = BankAccount THEN deposited
                           ELSE [deposited EXCEPT ![a] = deposited[a] + n]
           /\ deposited' \in [Assets -> Nat]
           /\ withdrawn' = withdrawn
<1>1. KindOf(a) \in Kinds
  BY DEF KindOf, Kinds
<1> QED BY <1>1 DEF LogDeposit, TypeOK

LEMMA CoinIsAsset == Coin \in Assets /\ Tokens \subseteq Assets /\ Coin \notin Tokens
BY BankAssumption DEF Assets

LEMMA NatsType ==
    ASSUME TypeOK, NEW a \in Assets
    PROVE  /\ balance[a][BankAccount] \in Nat
           /\ deposited[a] \in Nat
           /\ withdrawn[a] \in Nat
           /\ Leaving[a] \in Nat
<1>1. BankAccount \in Accounts
  BY DEF Accounts
<1>2. Leaving[a] \in Nat
  BY LeavingType
<1> QED BY <1>1, <1>2 DEF TypeOK

(* Custody is kept when, asset by asset, both of its sides grow alike.     *)
LEMMA CustodyKept ==
    ASSUME TypeOK, TypeOK', Custody,
           \A a \in Assets :
               LET out == withdrawn[a] + Leaving[a] + balance[a][BankAccount]
                   outNext == withdrawn'[a] + Leaving'[a] + balance'[a][BankAccount]
               IN  /\ deposited'[a] - deposited[a] <= outNext - out
                   /\ a = Coin => deposited'[a] - deposited[a] = outNext - out
    PROVE  Custody'
<1>1. ASSUME NEW a \in Assets
      PROVE  /\ balance'[a][BankAccount] \in Nat
             /\ deposited'[a] \in Nat
             /\ withdrawn'[a] \in Nat
             /\ Leaving'[a] \in Nat
  <2>1. BankAccount \in Accounts
    BY DEF Accounts
  <2>2. Leaving' \in [Assets -> Nat]
    <3>1. CASE calls' = <<>>
      BY <3>1 DEF Leaving
    <3>2. CASE calls' # <<>>
      <4>1. PICK c \in Calls : c = Top'
        BY <3>2 DEF TypeOK, Top
      <4>2. Including(c) \in [Assets -> Nat]
        BY IncludingType
      <4> QED BY <3>2, <4>1, <4>2 DEF Leaving, Including
    <3> QED BY <3>1, <3>2
  <2> QED BY <2>1, <2>2 DEF TypeOK
<1>2. ASSUME NEW a \in Tokens
      PROVE  deposited'[a] <= withdrawn'[a] + Leaving'[a] + balance'[a][BankAccount]
  <2>1. a \in Assets
    BY CoinIsAsset
  <2>2. deposited[a] <= withdrawn[a] + Leaving[a] + balance[a][BankAccount]
    BY DEF Custody
  <2>3. deposited'[a] - deposited[a]
        <= (withdrawn'[a] + Leaving'[a] + balance'[a][BankAccount])
           - (withdrawn[a] + Leaving[a] + balance[a][BankAccount])
    BY <2>1
  <2> QED BY <1>1, <2>1, <2>2, <2>3, NatsType
<1>3. deposited'[Coin] = withdrawn'[Coin] + Leaving'[Coin] + balance'[Coin][BankAccount]
  <2>1. deposited[Coin] = withdrawn[Coin] + Leaving[Coin] + balance[Coin][BankAccount]
    BY DEF Custody
  <2>2. deposited'[Coin] - deposited[Coin]
        = (withdrawn'[Coin] + Leaving'[Coin] + balance'[Coin][BankAccount])
          - (withdrawn[Coin] + Leaving[Coin] + balance[Coin][BankAccount])
    BY CoinIsAsset
  <2> QED BY <1>1, <2>1, <2>2, CoinIsAsset, NatsType
<1> QED BY <1>2, <1>3 DEF Custody

LEMMA InitBankInv == Init => BankInv
<1> SUFFICES ASSUME Init PROVE BankInv
  OBVIOUS
<1>1. TypeOK
  BY BankAssumption DEF Init, TypeOK
<1>2. Chained
  BY DEF Init, Chained
<1>3. Custody
  BY CoinIsAsset, BankAssumption DEF Init, Custody, Leaving
<1> QED BY <1>1, <1>2, <1>3 DEF BankInv

LEMMA NextBankInv ==
    ASSUME BankInv, [Next]_vars
    PROVE  BankInv'
<1> USE DEF BankInv
<1>0. /\ Leaving \in [Assets -> Nat]
      /\ BankAccount \in Accounts /\ Users \subseteq Accounts
  BY LeavingType DEF Accounts
<1>1. ASSUME NEW u \in Users, NEW a \in Tokens, NEW n \in AmountsOf(a), Approve(u, a, n)
      PROVE  BankInv'
  <2>1. n \in Nat
    BY AmountType
  <2>2. calls' \in Seq(Calls) /\ Chained' /\ Leaving' = Leaving
    BY <1>1, SameCalls DEF Approve
  <2>3. TypeOK'
    BY <1>1, <2>1, <2>2 DEF TypeOK, Approve, logVars
  <2>4. Custody'
    BY <1>1, <2>2 DEF Custody, Approve, logVars
  <2> QED BY <2>2, <2>3, <2>4
<1>2. ASSUME NEW u \in Users, NEW v \in Accounts, NEW a \in Assets, NEW n \in AmountsOf(a),
             Transfer(u, v, a, n)
      PROVE  BankInv'
  <2>1. n \in Nat
    BY AmountType
  <2>2. calls' \in Seq(Calls) /\ Chained' /\ Leaving' = Leaving
    BY <1>2, SameCalls DEF Transfer
  <2>3. /\ balance' \in [Assets -> [Accounts -> Nat]]
        /\ \A b \in Assets \ {a} : balance'[b] = balance[b]
        /\ balance'[a][BankAccount] =
             balance[a][BankAccount] + (IF v = BankAccount THEN n ELSE 0)
    BY <1>0, <1>2, <2>1, MoveType, BankAssumption DEF Transfer
  <2>4. allowance' \in [Tokens -> [Users -> Nat]]
    BY <1>2 DEF TypeOK, Transfer, Tokens
  <2>5. TypeOK'
    BY <1>2, <2>2, <2>3, <2>4 DEF TypeOK, Transfer, logVars
  <2>6. UNCHANGED <<deposited, withdrawn>> /\ (a = Coin => v # BankAccount)
    BY <1>2 DEF Transfer, logVars
  <2>7. ASSUME NEW b \in Assets
        PROVE  /\ balance'[b][BankAccount] >= balance[b][BankAccount]
               /\ b = Coin => balance'[b][BankAccount] = balance[b][BankAccount]
    <3>1. balance[b][BankAccount] \in Nat
      BY NatsType
    <3>2. CASE b = a
      BY <2>1, <2>3, <2>6, <3>1, <3>2
    <3>3. CASE b # a
      BY <2>3, <3>1, <3>3
    <3> QED BY <3>2, <3>3
  <2>8. Custody'
    <3>1. ASSUME NEW b \in Assets
          PROVE  balance[b][BankAccount] \in Nat /\ balance'[b][BankAccount] \in Nat
                 /\ deposited[b] \in Nat /\ withdrawn[b] \in Nat /\ Leaving[b] \in Nat
      BY <1>0, <2>3, NatsType
    <3> QED BY <2>2, <2>5, <2>6, <2>7, <3>1, CustodyKept
  <2> QED BY <2>2, <2>5, <2>8
<1>3. ASSUME NEW u \in Users, NEW c \in Contracts, AddWhitelist(u, c) \/ RemoveWhitelist(u, c)
      PROVE  BankInv'
  <2>1. calls' \in Seq(Calls) /\ Chained' /\ Leaving' = Leaving
    BY <1>3, SameCalls DEF AddWhitelist, RemoveWhitelist
  <2>2. UNCHANGED <<balance, allowance, index, deposited, withdrawn>> /\ whitelist' \subseteq Contracts
    BY <1>3 DEF TypeOK, AddWhitelist, RemoveWhitelist, tokenVars, logVars
  <2> QED BY <2>1, <2>2 DEF TypeOK, Custody
<1>4. ASSUME NEW u \in Users, NEW n \in Amounts, Deposit(u, n)
      PROVE  BankInv'
  <2>1. n \in Nat
    BY BankAssumption
  <2>2. calls' \in Seq(Calls) /\ Chained' /\ Leaving' = Leaving
    BY <1>4, SameCalls DEF Deposit
  <2>3. /\ balance' \in [Assets -> [Accounts -> Nat]]
        /\ \A b \in Assets \ {Coin} : balance'[b] = balance[b]
        /\ balance'[Coin][BankAccount] = balance[Coin][BankAccount] + n
    BY <1>0, <1>4, <2>1, MoveType, CoinIsAsset, BankAssumption DEF Deposit
  <2>4. /\ index' \in [Kinds -> Nat]
        /\ deposited' = [deposited EXCEPT ![Coin] = deposited[Coin] + n]
        /\ deposited' \in [Assets -> Nat]
        /\ withdrawn' = withdrawn
    BY <1>0, <1>4, <2>1, LogDepositEffect, CoinIsAsset, BankAssumption DEF Deposit
  <2>5. TypeOK'
    BY <1>4, <2>2, <2>3, <2>4 DEF TypeOK, Deposit
  <2>6. ASSUME NEW b \in Assets
        PROVE  LET out == withdrawn[b] + Leaving[b] + balance[b][BankAccount]
                   outNext == withdrawn'[b] + Leaving'[b] + balance'[b][BankAccount]
               IN  deposited'[b] - deposited[b] = outNext - out
    <3>1. /\ balance[b][BankAccount] \in Nat /\ deposited[b] \in Nat
          /\ withdrawn[b] \in Nat /\ Leaving[b] \in Nat
      BY NatsType
    <3>2. deposited \in [Assets -> Nat]
      BY DEF TypeOK
    <3>3. CASE b = Coin
      BY <2>1, <2>2, <2>3, <2>4, <3>1, <3>2, <3>3
    <3>4. CASE b # Coin
      BY <2>2, <2>3, <2>4, <3>1, <3>2, <3>4
    <3> QED BY <3>3, <3>4
  <2>7. ASSUME NEW b \in Assets
        PROVE  /\ deposited'[b] - deposited[b] \in Int
    <3>1. deposited[b] \in Nat /\ deposited'[b] \in Nat
      BY <2>4, NatsType
    <3> QED BY <3>1
  <2>8. Custody'
    <3>1. \A b \in Assets :
             LET out == withdrawn[b] + Leaving[b] + balance[b][BankAccount]
                 outNext == withdrawn'[b] + Leaving'[b] + balance'[b][BankAccount]
             IN  deposited'[b] - deposited[b] <= outNext - out
      BY <2>6, <2>7
    <3> QED BY <2>5, <2>6, <3>1, CustodyKept
  <2> QED BY <2>2, <2>5, <2>8
<1>5. ASSUME NEW u \in Users, NEW a \in Tokens, NEW from \in Accounts, NEW n \in AmountsOf(a),
             DepositToken(u, a, from, n)
      PROVE  BankInv'
  <2>1. n \in Nat
    BY AmountType
  <2>2. PICK c \in Calls : c.under = Leaving /\ Including(c) = Leaving /\ Enter(c)
    BY <1>5, <2>1, CallsEntered DEF DepositToken
  <2>3. calls' \in Seq(Calls) /\ Chained' /\ Leaving' = Leaving
    BY <2>2, EnterEffect
  <2> QED BY <1>5, <2>3 DEF TypeOK, Custody, DepositToken, tokenVars, logVars
<1>6. ASSUME NEW u \in Users, NEW via \in {BankAccount, BridgeAccount}, NEW a \in Assets,
             NEW to \in Accounts, NEW n \in AmountsOf(a), Withdraw(u, via, a, to, n)
      PROVE  BankInv'
  <2>1. n \in Nat
    BY AmountType
  <2>2. PICK c \in Calls :
          /\ c.under = Leaving /\ Enter(c)
          /\ Including(c) = [b \in Assets |-> Leaving[b] + IF a = b THEN n ELSE 0]
    BY <1>6, <2>1, CallsEntered DEF Withdraw
  <2>3. /\ calls' \in Seq(Calls) /\ Chained'
        /\ Leaving' = [b \in Assets |-> Leaving[b] + IF a = b THEN n ELSE 0]
    BY <2>2, EnterEffect
  <2>4. /\ balance' \in [Assets -> [Accounts -> Nat]]
        /\ \A b \in Assets \ {a} : balance'[b] = balance[b]
        /\ balance'[a][BankAccount] =
             balance[a][BankAccount] + (IF BankAccount # to /\ to = BankAccount THEN n ELSE 0)
                - (IF BankAccount # to /\ BankAccount = BankAccount THEN n ELSE 0)
    <3>1. Move(a, BankAccount, to, n)
      BY <1>6 DEF Withdraw
    <3> QED BY <1>0, <2>1, <3>1, MoveType
  <2>5. a = Coin => to # BankAccount
    BY <1>6, CoinIsAsset DEF Withdraw, Tokens
  <2>6. TypeOK'
    BY <1>6, <2>3, <2>4 DEF TypeOK, Withdraw, logVars
  <2>7. UNCHANGED <<deposited, withdrawn>>
    BY <1>6 DEF Withdraw, logVars
  <2>8. ASSUME NEW b \in Assets
        PROVE  LET out == withdrawn[b] + Leaving[b] + balance[b][BankAccount]
                   outNext == withdrawn'[b] + Leaving'[b] + balance'[b][BankAccount]
               IN  /\ deposited'[b] - deposited[b] <= outNext - out
                   /\ b = Coin => deposited'[b] - deposited[b] = outNext - out
    <3>1. /\ balance[b][BankAccount] \in Nat /\ deposited[b] \in Nat
          /\ withdrawn[b] \in Nat /\ Leaving[b] \in Nat
      BY NatsType
    <3>2. deposited'[b] = deposited[b] /\ withdrawn'[b] = withdrawn[b]
      BY <2>7
    <3>3. CASE b = a
      <4>1. Leaving'[b] = Leaving[b] + n
        BY <2>3, <3>3
      <4>2. CASE to = BankAccount
        <5>1. balance'[b][BankAccount] = balance[b][BankAccount]
          BY <2>4, <3>1, <3>3, <4>2
        <5> QED BY <2>1, <2>5, <3>1, <3>2, <3>3, <4>1, <4>2, <5>1
      <4>3. CASE to # BankAccount
        <5>1. balance'[b][BankAccount] = balance[b][BankAccount] - n
          BY <2>1, <2>4, <3>1, <3>3, <4>3
        <5> QED BY <2>1, <3>1, <3>2, <4>1, <5>1
      <4> QED BY <4>2, <4>3
    <3>4. CASE b # a
      <4>1. Leaving'[b] = Leaving[b]
        BY <2>3, <3>1, <3>4
      <4>2. balance'[b] = balance[b]
        BY <2>4, <3>4
      <4> QED BY <3>1, <3>2, <4>1, <4>2
    <3> QED BY <3>3, <3>4
  <2>9. Custody'
    BY <2>6, <2>8, CustodyKept
  <2> QED BY <2>3, <2>6, <2>9
<1>7. CASE DepositTokenReturns
  <2> DEFINE a == Top.asset
             n == Top.amount
             from == Top.from
  <2>1. calls # <<>> /\ Top \in Calls /\ Top.fn = "deposit"
    BY <1>7, TopType DEF DepositTokenReturns, InReturn
  <2>2. a \in Tokens /\ a \in Assets /\ n \in Nat /\ from \in Accounts
    BY <2>1, CallType
  <2>3. calls' \in Seq(Calls) /\ Chained' /\ Leaving' = Top.under
    BY <1>7, <2>1, ReturnEffect DEF DepositTokenReturns
  <2>4. Leaving' = Leaving
    <3>1. Top.under \in [Assets -> Nat]
      BY <2>1, CallType
    <3>2. Leaving = [b \in Assets |-> Top.under[b] + 0]
      BY <2>1 DEF Leaving, Including
    <3> QED BY <2>3, <3>1, <3>2
  <2>5. /\ Move(a, from, BankAccount, n)
        /\ LogDeposit(a, from, n)
        /\ from # BankAccount => allowance[a][from] >= n
        /\ allowance' = IF from = BankAccount THEN allowance
                        ELSE [allowance EXCEPT ![a][from] = @ - n]
        /\ UNCHANGED whitelist
    BY <1>7 DEF DepositTokenReturns, CanSpend
  <2> HIDE DEF a, n, from
  <2>6. allowance' \in [Tokens -> [Users -> Nat]]
    <3>1. allowance \in [Tokens -> [Users -> Nat]]
      BY DEF TypeOK
    <3>2. CASE from = BankAccount
      BY <2>5, <3>1, <3>2
    <3>3. CASE from # BankAccount
      <4>1. from \in Users /\ allowance[a][from] \in Nat
        BY <2>2, <3>1, <3>3 DEF Accounts
      <4>2. allowance[a][from] - n \in Nat
        BY <2>2, <2>5, <3>3, <4>1
      <4> QED BY <2>2, <2>5, <3>1, <3>3, <4>2
    <3> QED BY <3>2, <3>3
  <2>7. /\ balance' \in [Assets -> [Accounts -> Nat]]
        /\ \A b \in Assets \ {a} : balance'[b] = balance[b]
        /\ balance'[a][BankAccount] =
             balance[a][BankAccount] + (IF from = BankAccount THEN 0 ELSE n)
    BY <1>0, <2>2, <2>5, MoveType, NatsType
  <2>8. /\ index' \in [Kinds -> Nat]
        /\ deposited' = IF from = BankAccount THEN deposited
                        ELSE [deposited EXCEPT ![a] = deposited[a] + n]
        /\ deposited' \in [Assets -> Nat]
        /\ withdrawn' = withdrawn
    BY <2>2, <2>5, LogDepositEffect
  <2>9. TypeOK'
    BY <2>3, <2>5, <2>6, <2>7, <2>8 DEF TypeOK
  <2>10. ASSUME NEW b \in Assets
         PROVE  LET out == withdrawn[b] + Leaving[b] + balance[b][BankAccount]
                    outNext == withdrawn'[b] + Leaving'[b] + balance'[b][BankAccount]
                IN  /\ deposited'[b] - deposited[b] <= outNext - out
                    /\ b = Coin => deposited'[b] - deposited[b] = outNext - out
    <3>1. /\ balance[b][BankAccount] \in Nat /\ deposited[b] \in Nat
          /\ withdrawn[b] \in Nat /\ Leaving[b] \in Nat
      BY NatsType
    <3>2. deposited \in [Assets -> Nat]
      BY DEF TypeOK
    <3>3. CASE b = a
      BY <2>2, <2>4, <2>7, <2>8, <3>1, <3>2, <3>3
    <3>4. CASE b # a
      BY <2>4, <2>7, <2>8, <3>1, <3>2, <3>4
    <3> QED BY <3>3, <3>4
  <2>11. Custody'
    BY <2>9, <2>10, CustodyKept
  <2> QED BY <2>3, <2>9, <2>11
<1>8. CASE WithdrawReturns
  <2> DEFINE a == Top.asset
             n == Top.amount
  <2>1. calls # <<>> /\ Top \in Calls /\ Top.fn = "withdraw"
    BY <1>8, TopType DEF WithdrawReturns, InReturn
  <2>2. a \in Assets /\ n \in Nat /\ Top.under \in [Assets -> Nat]
    BY <2>1, CallType
  <2>3. calls' \in Seq(Calls) /\ Chained' /\ Leaving' = Top.under
    BY <1>8, <2>1, ReturnEffect DEF WithdrawReturns
  <2>4. Leaving = [b \in Assets |-> Leaving'[b] + IF a = b THEN n ELSE 0]
    BY <2>1, <2>3 DEF Leaving, Including
  <2>5. withdrawn' = [withdrawn EXCEPT ![a] = withdrawn[a] + n]
    BY <1>8 DEF WithdrawReturns
  <2> HIDE DEF a, n
  <2>6. TypeOK'
    <3>1. withdrawn[a] + n \in Nat /\ withdrawn \in [Assets -> Nat]
      BY <2>2 DEF TypeOK
    <3>2. withdrawn' \in [Assets -> Nat]
      BY <2>5, <3>1
    <3>3. UNCHANGED <<balance, allowance, whitelist, index, deposited>>
      BY <1>8 DEF WithdrawReturns, tokenVars
    <3> QED BY <2>3, <3>2, <3>3 DEF TypeOK
  <2>7. ASSUME NEW b \in Assets
        PROVE  withdrawn'[b] + Leaving'[b] = withdrawn[b] + Leaving[b]
    BY <2>2, <2>3, <2>4, <2>5 DEF TypeOK
  <2>8. UNCHANGED <<balance, deposited>>
    BY <1>8 DEF WithdrawReturns, tokenVars
  <2>9. Custody'
    BY <2>7, <2>8, CoinIsAsset DEF Custody
  <2> QED BY <2>3, <2>6, <2>9
<1>9. CASE UNCHANGED vars
  BY <1>9, SameCalls DEF TypeOK, Custody, vars, tokenVars, logVars
<1> QED BY <1>0, <1>1, <1>2, <1>3, <1>4, <1>5, <1>6, <1>7, <1>8, <1>9
        DEF Next, UserStep, BankDepositToken, BridgeDepositToken, BankWithdraw, BridgeWithdraw

(* Every variable keeps its type: no move overdraws an account, and what   *)
(* waits on the stack is a withdrawal or a deposit of a token.             *)
THEOREM BankTypeCorrect == Spec => []TypeOK
<1>1. BankInv => TypeOK
  BY DEF BankInv
<1> QED BY <1>1, InitBankInv, NextBankInv, PTL DEF Spec

(* At any depth of calls of the bank from within its own calls, it holds   *)
(* what its logs say others deposited and was not withdrawn.               *)
THEOREM CustodyHolds == Spec => []Custody
<1>1. BankInv => Custody
  BY DEF BankInv
<1> QED BY <1>1, InitBankInv, NextBankInv, PTL DEF Spec

(***************************************************************************)
(* Who may withdraw.                                                       *)
(***************************************************************************)

\* A move of a into the bank, or past it, takes nothing from the bank.
LEMMA MoveFromOther ==
    ASSUME TypeOK, NEW a \in Assets, NEW u \in Accounts, NEW v \in Accounts, NEW n \in Nat,
           Move(a, u, v, n), u # BankAccount \/ v = BankAccount, NEW b \in Assets
    PROVE  ~(balance'[b][BankAccount] < balance[b][BankAccount])
<1>1. balance[b][BankAccount] \in Nat
  BY NatsType
<1>2. CASE b = a
  BY <1>1, <1>2, MoveType
<1>3. CASE b # a
  BY <1>1, <1>3, MoveType
<1> QED BY <1>2, <1>3

\* Only a permitted withdrawal takes from what the bank holds.
LEMMA OnlyWithdrawTakes ==
    ASSUME TypeOK, [Next]_vars, NEW b \in Assets,
           balance'[b][BankAccount] < balance[b][BankAccount]
    PROVE  \E u \in Users, a \in Assets, v \in Accounts, n \in Nat :
               BankWithdraw(u, a, v, n) \/ BridgeWithdraw(u, a, v, n)
<1>0. /\ balance[b][BankAccount] \in Nat /\ BankAccount \in Accounts
      /\ Users \subseteq Accounts /\ BankAccount \notin Users
  BY NatsType, BankAssumption DEF Accounts
<1>1. ~UNCHANGED balance
  BY <1>0
<1>2. ASSUME NEW u \in Users, NEW v \in Accounts, NEW a \in Assets, NEW n \in AmountsOf(a),
             Transfer(u, v, a, n)
      PROVE  FALSE
  BY <1>0, <1>2, AmountType, MoveFromOther DEF Transfer
<1>3. ASSUME NEW u \in Users, NEW n \in Amounts, Deposit(u, n) PROVE FALSE
  BY <1>0, <1>3, CoinIsAsset, BankAssumption, MoveFromOther DEF Deposit
<1>4. CASE DepositTokenReturns
  <2>1. /\ calls # <<>> /\ Top.fn = "deposit"
        /\ Move(Top.asset, Top.from, BankAccount, Top.amount)
    BY <1>4 DEF DepositTokenReturns, InReturn
  <2>2. Top.asset \in Assets /\ Top.from \in Accounts /\ Top.amount \in Nat
    BY <2>1, TopType, CallType
  <2> QED BY <1>0, <2>1, <2>2, MoveFromOther
<1>5. \/ UNCHANGED balance \/ DepositTokenReturns
      \/ \E u \in Users, v \in Accounts, a \in Assets : \E n \in AmountsOf(a) :
             Transfer(u, v, a, n) \/ BankWithdraw(u, a, v, n) \/ BridgeWithdraw(u, a, v, n)
      \/ \E u \in Users, n \in Amounts : Deposit(u, n)
  BY DEF Next, UserStep, Approve, AddWhitelist, RemoveWhitelist, DepositToken,
         BankDepositToken, BridgeDepositToken, WithdrawReturns, vars, tokenVars
<1> QED BY <1>1, <1>2, <1>3, <1>4, <1>5, AmountType

\* A withdrawal takes its own asset, and is the call that it enters.
LEMMA WithdrawalEntered ==
    ASSUME TypeOK, NEW u \in Users, NEW via \in {BankAccount, BridgeAccount}, NEW a \in Assets,
           NEW v \in Accounts, NEW n \in Nat, Withdraw(u, via, a, v, n), NEW b \in Assets,
           balance'[b][BankAccount] < balance[b][BankAccount]
    PROVE  /\ calls'[Len(calls')].fn = "withdraw"
           /\ calls'[Len(calls')].asset = b
           /\ calls'[Len(calls')].by = u
           /\ calls'[Len(calls')].via = via
           /\ MayCall(u)
<1>1. balance[b][BankAccount] \in Nat /\ BankAccount \in Accounts
  BY NatsType DEF Accounts
<1>2. b = a
  <2>1. Move(a, BankAccount, v, n)
    BY DEF Withdraw
  <2> QED BY <1>1, <2>1, MoveType
<1>3. PICK c : /\ calls' = Append(calls, c)
               /\ c.fn = "withdraw" /\ c.asset = a /\ c.by = u /\ c.via = via
  BY DEF Withdraw, Enter, WithdrawCall
<1>4. calls'[Len(calls')] = c
  BY <1>3 DEF TypeOK
<1> QED BY <1>2, <1>3, <1>4 DEF Withdraw

(* Whatever calls back whatever, nothing leaves the bank but in a           *)
(* withdrawal called by an account that holds the role of the contract it   *)
(* calls; through the bridge, only while the bridge holds the bank's.       *)
THEOREM OnlyThePermittedWithdraw == Spec => OnlyPermitedWithdraw
<1> DEFINE Step == \A a \in Assets : balance'[a][BankAccount] < balance[a][BankAccount] =>
                       LET c == calls'[Len(calls')] IN
                           c.fn = "withdraw" /\ c.asset = a /\ MayCall(c.by) /\ PermitedCall(c)
<1>1. ASSUME TypeOK, [Next]_vars, NEW b \in Assets,
             balance'[b][BankAccount] < balance[b][BankAccount]
      PROVE  LET c == calls'[Len(calls')] IN
                 c.fn = "withdraw" /\ c.asset = b /\ MayCall(c.by) /\ PermitedCall(c)
  <2>1. PICK u \in Users, a \in Assets, v \in Accounts, n \in Nat :
          BankWithdraw(u, a, v, n) \/ BridgeWithdraw(u, a, v, n)
    BY <1>1, OnlyWithdrawTakes
  <2>2. CASE BankWithdraw(u, a, v, n)
    BY <1>1, <2>2, WithdrawalEntered DEF BankWithdraw, PermitedCall
  <2>3. CASE BridgeWithdraw(u, a, v, n)
    BY <1>1, <2>3, WithdrawalEntered DEF BridgeWithdraw, PermitedCall
  <2> QED BY <2>1, <2>2, <2>3
<1>2. TypeOK /\ [Next]_vars => [Step]_vars
  BY <1>1
<1> QED BY <1>2, BankTypeCorrect, PTL DEF Spec, OnlyPermitedWithdraw

=============================================================================
