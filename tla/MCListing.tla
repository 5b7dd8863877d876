----------------------------- MODULE MCListing -----------------------------
EXTENDS Listing, TLC

CONSTANTS w1, w2, w3, a, b, r1

MCWriters == {w1, w2, w3}
MCUsers == {a, b}

Does(kind, source, target) == [kind |-> kind, source |-> source, target |-> target]

\* Three calls on the wallets of two users.
Calls == (w1 :> Does("TRANSFER", a, b)) @@ (w2 :> Does("TOPUP", a, a))
         @@ (w3 :> Does("TRANSFER", b, a))

\* First pages, a later one, a page size beyond the maximum, an absent parameter; with
\* offsets of three bits, one that wraps around to a negative number and one to zero.
MCAsked == {<<1, 1>>, <<1, 2>>, <<2, 1>>, <<1, 3>>, <<0, 1>>, <<5, 1>>, <<9, 1>>}
=============================================================================
