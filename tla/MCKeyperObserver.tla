-------------------------- MODULE MCKeyperObserver --------------------------
(***************************************************************************)
(* An instance of KeyperObserver for TLC.                                  *)
(***************************************************************************)
EXTENDS KeyperObserver

CONSTANTS alice, bob

MCTx(sender, nonce, msg) == [Sender |-> sender, RandomNonce |-> nonce, Msg |-> msg]

config == MCTx(alice, 0, "config")
deal   == MCTx(alice, 1, "deal")
share  == MCTx(alice, 2, "share")

(* A message with a nonce used before, and one of the new keyper.          *)
reused == MCTx(alice, 1, "share")
deal2  == MCTx(alice, 3, "deal")
share2 == MCTx(alice, 4, "share")
bobs   == MCTx(bob, 1, "deal")

MCTxs == {config, deal, share, deal2, share2, reused, bobs}

MCProposals ==
    {<<>>, <<config>>, <<deal, share>>, <<share2, deal2>>, <<deal, reused>>,
     <<bobs, config, bobs>>}
=============================================================================
