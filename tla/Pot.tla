-------------------------------- MODULE Pot ---------------------------------
(***************************************************************************)
(* The pot of the dApp under ZWaves, where the transactions of its account *)
(* may have any fee and may pay anybody.  The history variable "outlay"    *)
(* records what they took from the account and no note paid for: the fee   *)
(* of a call beyond the contract's, and every payment elsewhere.  It only  *)
(* observes; no step depends on it.                                        *)
(***************************************************************************)
EXTENDS ZWaves

VARIABLE outlay

potVars == <<vars, outlay>>

PotInit == Init /\ outlay = 0

PotDeposit(txFee) == Deposit(txFee) /\ UNCHANGED outlay

PotSpend(txFee) ==
    /\ Withdrawal(txFee) \/ Transfer(txFee)
    /\ outlay' = outlay + txFee - fee

PotPay(txFee) ==
    \E tx \in OtherTransactions, sender, receiver \in Accounts :
        /\ pay(tx, sender, receiver, txFee)
        /\ outlay' = outlay + (IF sender = this THEN tx.amount + txFee ELSE 0)

PotNext == \E txFee \in TxFees : PotDeposit(txFee) \/ PotSpend(txFee) \/ PotPay(txFee)

PotSpec == PotInit /\ [][PotNext]_potVars
-----------------------------------------------------------------------------
\* With the outlay put back, the dApp can pay out every note that is not spent
\* and still has what it had when the script was set, although it pays the
\* fees of the spending calls: whatever the arguments of a call, it takes no
\* more than the notes it spends are worth and its own fee's excess.
Solvency == funds[this] + outlay >= InitFunds[this] + OutstandingValue

\* No note of the pool is large enough for toInt to read its 64-bit balance as
\* a negative number, so that its owner could never withdraw it, until notes
\* have been deposited with WAVES that the outlay took from the pot: all the
\* WAVES there are, and those, have to fit into the 64 bits.
BalancesReadPositive ==
    2 * (Supply(InitFunds) + outlay) <= BalanceLimit =>
        \A n \in Unspent : toInt(n.balance) = n.balance
=============================================================================
