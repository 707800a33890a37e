-------------------------------- MODULE Bank --------------------------------
(***************************************************************************)
(* The in chain's contracts: Bank.sol, which holds what is deposited, and  *)
(* Bridge.sol, which forwards to it.  A transaction is a stack of calls:   *)
(* where the bank calls a recipient or a token that calls back, the        *)
(* account called may call again before the bank goes on.  A call that     *)
(* would revert does not return; nothing it did is seen outside.           *)
(***************************************************************************)
EXTENDS Naturals, Sequences

CONSTANTS
    Users,        \* accounts other than the two contracts
    BankAccount,  \* the bank's address
    BridgeAccount,\* the bridge's address
    Coin,         \* the native coin
    ERC20s,       \* ERC20 tokens that move exactly the amount they are asked to
    NFTs,         \* single tokens of NFT contracts
    ContractOf,   \* ContractOf[a]: the token contract of an ERC20 or NFT
    Hooked,       \* ERC20s that call the account a transfer concerns
    BankRole,     \* accounts the bank's controller permits
    BridgeRole,   \* accounts the bridge's controller permits
    Amounts,      \* amounts of coin and ERC20s moved at once
    InitBalance,  \* InitBalance[a][u]
    MaxDeposits,  \* bound: deposits logged
    MaxWithdrawn, \* bound: amount withdrawn of one asset
    MaxDepth      \* bound: nested calls

Tokens == ERC20s \cup NFTs
Assets == {Coin} \cup Tokens
Accounts == Users \cup {BankAccount}
Contracts == {ContractOf[a] : a \in Tokens}
NoUser == BankAccount   \* the account called, when nobody is

ASSUME BankAssumption ==
    /\ BankAccount \notin Users
    /\ BridgeAccount \notin Accounts
    /\ Coin \notin Tokens
    /\ ERC20s \cap NFTs = {}
    /\ ContractOf \in [Tokens -> Contracts]
    /\ Hooked \subseteq ERC20s
    /\ BankRole \subseteq Users \cup {BridgeAccount}
    /\ BridgeRole \subseteq Users
    /\ Amounts \subseteq Nat
    /\ InitBalance \in [Assets -> [Accounts -> Nat]]
    /\ \A a \in Assets : InitBalance[a][BankAccount] = 0
    /\ MaxDeposits \in Nat
    /\ MaxWithdrawn \in Nat
    /\ MaxDepth \in Nat

VARIABLES
    balance,    \* balance[a][u]: coins, tokens, or 1 for the owner of an NFT
    allowance,  \* allowance[a][u]: what the bank may take from u
    whitelist,  \* contracts in the bridge's two whitelists
    calls,      \* calls of the bank that have not returned
    index,      \* index[k]: the bank's counters of deposits
    deposited,  \* deposited[a]: sum of the deposit logs of a that name another
                \* sender than the bank
    withdrawn   \* withdrawn[a]: sum of the withdrawal logs of a

tokenVars == <<balance, allowance>>
logVars == <<index, deposited, withdrawn>>
vars == <<tokenVars, whitelist, calls, logVars>>

(* The bank's counters: indexDeposited, indexERC20Deposited and            *)
(* indexNFTDeposited.                                                      *)
Kinds == {"Coin", "ERC20", "NFT"}
KindOf(a) == IF a = Coin THEN "Coin" ELSE IF a \in ERC20s THEN "ERC20" ELSE "NFT"
AmountsOf(a) == IF a \in NFTs THEN {1} ELSE Amounts

(* A call of the bank that waits for another contract and may be calling   *)
(* account `who`.  A withdrawal was called by user `by`, of the bank or of *)
(* the bridge (`via`).  `under` sums up the withdrawals below the call in  *)
(* the stack, which are not logged yet.                                    *)
DepositCalls ==
    [fn : {"deposit"}, asset : Tokens, from : Accounts, amount : Nat, who : Accounts,
     under : [Assets -> Nat]]
WithdrawCalls ==
    [fn : {"withdraw"}, by : Users, via : {BankAccount, BridgeAccount}, asset : Assets,
     amount : Nat, who : Accounts, under : [Assets -> Nat]]
Calls == DepositCalls \cup WithdrawCalls

TypeOK ==
    /\ balance \in [Assets -> [Accounts -> Nat]]
    /\ allowance \in [Tokens -> [Users -> Nat]]
    /\ whitelist \subseteq Contracts
    /\ calls \in Seq(Calls)
    /\ index \in [Kinds -> Nat]
    /\ deposited \in [Assets -> Nat]
    /\ withdrawn \in [Assets -> Nat]

Init ==
    /\ balance = InitBalance
    /\ allowance = [a \in Tokens |-> [u \in Users |-> 0]]
    /\ whitelist = {}
    /\ calls = <<>>
    /\ index = [k \in Kinds |-> 0]
    /\ deposited = [a \in Assets |-> 0]
    /\ withdrawn = [a \in Assets |-> 0]

(***************************************************************************)
(* Calls.                                                                  *)
(***************************************************************************)
Top == calls[Len(calls)]

(* A user starts a transaction, or calls from within one of the bank's.    *)
MayCall(u) == IF calls = <<>> THEN TRUE ELSE Top.who = u

(* The withdrawals that have moved their funds and are still to be logged. *)
Including(c) ==
    [a \in Assets |-> c.under[a] + IF c.fn = "withdraw" /\ c.asset = a THEN c.amount ELSE 0]
Leaving == IF calls = <<>> THEN [a \in Assets |-> 0] ELSE Including(Top)

DepositCall(a, from, n) ==
    [fn |-> "deposit", asset |-> a, from |-> from, amount |-> n,
     who |-> IF a \in Hooked THEN from ELSE NoUser, under |-> Leaving]
WithdrawCall(u, via, a, to, n) ==
    [fn |-> "withdraw", by |-> u, via |-> via, asset |-> a, amount |-> n,
     who |-> IF a \in ERC20s \ Hooked THEN NoUser ELSE to, under |-> Leaving]

Enter(c) == Len(calls) < MaxDepth /\ calls' = Append(calls, c)
Return == calls' = SubSeq(calls, 1, Len(calls) - 1)
InReturn(fn) == calls # <<>> /\ Top.fn = fn

(* Bug: nobody looks whether u has that much.                              *)
MoveUnchecked(a, u, v, n) ==
    balance' = [balance EXCEPT ![a] =
                  IF u = v THEN balance[a]
                  ELSE [balance[a] EXCEPT ![u] = @ - n, ![v] = @ + n]]

Move(a, u, v, n) ==
    /\ balance[a][u] >= n
    /\ balance' = [balance EXCEPT ![a] =
                     IF u = v THEN balance[a]
                     ELSE [balance[a] EXCEPT ![u] = @ - n, ![v] = @ + n]]

(* assignIndex and the log of a deposit.                                   *)
LogDeposit(a, from, n) ==
    /\ index["Coin"] + index["ERC20"] + index["NFT"] < MaxDeposits
    /\ index' = [index EXCEPT ![KindOf(a)] = @ + 1]
    /\ deposited' = IF from = BankAccount THEN deposited
                                          ELSE [deposited EXCEPT ![a] = @ + n]
    /\ UNCHANGED withdrawn

(***************************************************************************)
(* The tokens, apart from the bank.                                        *)
(***************************************************************************)
Approve(u, a, n) ==
    /\ MayCall(u)
    /\ a \in NFTs => balance[a][u] = 1
    /\ allowance' = [allowance EXCEPT ![a][u] = n]
    /\ UNCHANGED <<balance, whitelist, calls, logVars>>

(* An NFT's approval ends when it changes hands; the bank takes no coins   *)
(* but those of deposit.                                                   *)
Transfer(u, v, a, n) ==
    /\ MayCall(u)
    /\ a = Coin => v # BankAccount
    /\ Move(a, u, v, n)
    /\ allowance' = IF a \in NFTs THEN [allowance EXCEPT ![a][u] = 0] ELSE allowance
    /\ UNCHANGED <<whitelist, calls, logVars>>

(***************************************************************************)
(* Whitelists.                                                             *)
(***************************************************************************)
AddWhitelist(u, c) ==
    /\ MayCall(u)
    /\ u \in BridgeRole
    /\ whitelist' = whitelist \cup {c}
    /\ UNCHANGED <<tokenVars, calls, logVars>>

RemoveWhitelist(u, c) ==
    /\ MayCall(u)
    /\ u \in BridgeRole
    /\ whitelist' = whitelist \ {c}
    /\ UNCHANGED <<tokenVars, calls, logVars>>

(***************************************************************************)
(* Deposits.                                                               *)
(***************************************************************************)
Deposit(u, n) ==
    /\ MayCall(u)
    /\ Move(Coin, u, BankAccount, n)
    /\ LogDeposit(Coin, u, n)
    /\ UNCHANGED <<allowance, whitelist, calls>>

(* The token lets the bank spend from's funds: with from's approval, or,   *)
(* when the bank is asked to deposit its own, because it is the caller, as *)
(* in every NFT contract and some ERC20s; in others such a call reverts.   *)
CanSpend(a, from, n) ==
    /\ balance[a][from] >= n
    /\ from # BankAccount => allowance[a][from] >= n

(* The bank asks the token for from's funds.  The bank itself takes any    *)
(* token, from any account the caller names, itself included; the bridge   *)
(* only those in its whitelists, from its caller.  Where nobody is called  *)
(* in between, a call that would revert is not entered.                    *)
DepositToken(u, a, from, n) ==
    /\ MayCall(u)
    /\ a \in Hooked \/ CanSpend(a, from, n)
    /\ Enter(DepositCall(a, from, n))
    /\ UNCHANGED <<tokenVars, whitelist, logVars>>

BankDepositToken(u, a, from, n) == DepositToken(u, a, from, n)

BridgeDepositToken(u, a, n) ==
    /\ ContractOf[a] \in whitelist
    /\ DepositToken(u, a, u, n)

(* Bug: the token's answer is not looked at.                               *)
DepositTokenReturnsUnsafe ==
    /\ InReturn("deposit")
    /\ UNCHANGED tokenVars
    /\ LogDeposit(Top.asset, Top.from, Top.amount)
    /\ Return
    /\ UNCHANGED whitelist

(* The token moves the funds or reverts, then the bank logs the deposit.   *)
DepositTokenReturns ==
    /\ InReturn("deposit")
    /\ CanSpend(Top.asset, Top.from, Top.amount)
    /\ allowance' = IF Top.from = BankAccount THEN allowance
                    ELSE [allowance EXCEPT ![Top.asset][Top.from] = @ - Top.amount]
    /\ Move(Top.asset, Top.from, BankAccount, Top.amount)
    /\ LogDeposit(Top.asset, Top.from, Top.amount)
    /\ Return
    /\ UNCHANGED whitelist

(***************************************************************************)
(* Withdrawals.                                                            *)
(***************************************************************************)

(* withdraw is nonReentrant.                                               *)
Entered == \E i \in 1..Len(calls) : calls[i].fn = "withdraw" /\ calls[i].asset = Coin

(* withdraw, withdrawERC20 and withdrawNFT up to the call of the receiver: *)
(* of coins, of an NFT, or of an ERC20 that calls it.  Neither coins nor   *)
(* an NFT can be sent to the bank itself.                                  *)
Withdraw(u, via, a, to, n) ==
    /\ MayCall(u)
    /\ a = Coin => ~Entered
    /\ to = BankAccount => a \in ERC20s
    /\ withdrawn[a] + Leaving[a] + n <= MaxWithdrawn
    /\ Move(a, BankAccount, to, n)
    /\ Enter(WithdrawCall(u, via, a, to, n))
    /\ UNCHANGED <<allowance, whitelist, logVars>>

(* onlyPermited(BANK_ACCESS_ROLE).                                         *)
BankWithdraw(u, a, to, n) ==
    /\ u \in BankRole
    /\ Withdraw(u, BankAccount, a, to, n)

(* Bug: the bridge leaves the check to the bank, which permits the bridge. *)
BridgeWithdrawUnchecked(u, a, to, n) ==
    /\ BridgeAccount \in BankRole
    /\ Withdraw(u, BridgeAccount, a, to, n)

(* onlyPermited(BRIDGE_ACCESS_ROLE), then a call of the bank in the        *)
(* bridge's own name.                                                      *)
BridgeWithdraw(u, a, to, n) ==
    /\ u \in BridgeRole
    /\ BridgeAccount \in BankRole
    /\ Withdraw(u, BridgeAccount, a, to, n)

(* The bank logs the withdrawal.                                           *)
WithdrawReturns ==
    /\ InReturn("withdraw")
    /\ withdrawn' = [withdrawn EXCEPT ![Top.asset] = @ + Top.amount]
    /\ Return
    /\ UNCHANGED <<tokenVars, whitelist, index, deposited>>

UserStep(u) ==
    \/ \E a \in Tokens : \E n \in AmountsOf(a) : Approve(u, a, n)
    \/ \E a \in Assets, v \in Accounts : \E n \in AmountsOf(a) :
           Transfer(u, v, a, n) \/ BankWithdraw(u, a, v, n) \/ BridgeWithdraw(u, a, v, n)
    \/ \E c \in Contracts : AddWhitelist(u, c) \/ RemoveWhitelist(u, c)
    \/ \E n \in Amounts : Deposit(u, n)
    \/ \E a \in Tokens, from \in Accounts : \E n \in AmountsOf(a) :
           BankDepositToken(u, a, from, n)
    \/ \E a \in Tokens : \E n \in AmountsOf(a) : BridgeDepositToken(u, a, n)

Next ==
    \/ \E u \in Users : UserStep(u)
    \/ DepositTokenReturns
    \/ WithdrawReturns

Spec == Init /\ [][Next]_vars

(***************************************************************************)
(* Properties.                                                             *)
(***************************************************************************)

(* The bank holds at least what its logs say others deposited and was not  *)
(* withdrawn, but for the withdrawals under way, and of coins exactly      *)
(* that; also while an account it pays, or a token, calls it back.  A log  *)
(* that names the bank itself as the sender stands for nothing: depositNFT *)
(* (Bank.sol:142-147) logs it for any NFT the bank holds.                  *)
Custody ==
    /\ \A a \in Tokens :
           deposited[a] <= withdrawn[a] + Leaving[a] + balance[a][BankAccount]
    /\ deposited[Coin] = withdrawn[Coin] + Leaving[Coin] + balance[Coin][BankAccount]

(* Nothing leaves the bank but in a withdrawal of that asset, entered by   *)
(* the user whose turn it is to call, who has the bank's role, or has the  *)
(* bridge's and calls through the bridge, which has the bank's; whatever   *)
(* calls are under way.                                                    *)
PermitedCall(c) ==
    \/ c.via = BankAccount /\ c.by \in BankRole
    \/ c.via = BridgeAccount /\ c.by \in BridgeRole /\ BridgeAccount \in BankRole
OnlyPermitedWithdraw ==
    [][\A a \in Assets : balance'[a][BankAccount] < balance[a][BankAccount] =>
           LET c == calls'[Len(calls')] IN
               c.fn = "withdraw" /\ c.asset = a /\ MayCall(c.by) /\ PermitedCall(c)]_vars

=============================================================================
