----------------------------- MODULE MCDirectory -----------------------------
(***************************************************************************)
(* Small instances of Directory.  The proofs of each instance are chosen so *)
(* that every check of bind_nostr and unbind_nostr has one that fails it.   *)
(***************************************************************************)
EXTENDS Directory

CONSTANTS d1, d2, h1, h2, k1, k2, n1, n2, n3, n4

BindProof(d, h, k, n, t) ==
    [kind |-> "bind", device |-> d, handle |-> h, key |-> k, nonce |-> n,
     time |-> t]

UnbindProof(d, h, k, n, t) ==
    [kind |-> "unbind", device |-> d, handle |-> h, key |-> k, nonce |-> n,
     time |-> t]

\* One owner who moves from one key to another: with Skew = 1 and a clock that
\* runs to 4, each proof can be early, fresh and stale, and its nonce purged.
MCReplay == {BindProof(d1, h1, k1, n1, 1), BindProof(d1, h1, k2, n2, 2)}

\* Two owners after the same key; one of them moves to another key and lets
\* go of one.
MCTwoOwners ==
    {BindProof(d1, h1, k1, n1, 0), BindProof(d1, h1, k2, n2, 0),
     UnbindProof(d1, h1, k1, n3, 0), BindProof(d2, h2, k1, n4, 0)}

==============================================================================
