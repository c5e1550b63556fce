---------------------------- MODULE MCWalletTopups ----------------------------
(* Instance of WalletTopups for TLC: one student, and one vendor that a payout *)
(* overdraws.  A behaviour is about the student's top-up or the vendor's: the  *)
(* attempts of two wallets share nothing but the reconcilers.  One   *)
(* crash or one fault.                                                        *)
EXTENDS WalletTopups

CONSTANTS s1, v1

MCVendorOf == [b \in {} |-> v1]
MCOpening == [a \in Accounts |-> 0]

OneWallet ==
  \A i, j \in TxIds :
    wtx[i] # NULL /\ wtx[j] # NULL /\ i # j => s1 \notin {wtx[i].credit, wtx[j].credit}

MCNext == Next /\ OneWallet' /\ crashes' + faults' <= 1

MCSpec == Init /\ [][MCNext]_vars /\ \A i \in TxIds : SF_vars(SweepStep(i))
=============================================================================
