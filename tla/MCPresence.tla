----------------------------- MODULE MCPresence -----------------------------
(* Two others: one with the page's nick but no tripcode, and a guest; or two
   clients of one nick.  The page reads a message before the next is sent: the
   server does not wait for it, and no handler of it waits for the server. *)
EXTENDS Presence, TLC

CONSTANTS me, o1, o2, bob, bobT, former, bot

MCBare == (bobT :> bob) @@ [n \in Nicks |-> n]

MCCasts ==
    {(me :> bobT) @@ (o1 :> bob) @@ (o2 :> NoNick),
     (me :> bobT) @@ (o1 :> NoNick) @@ (o2 :> bob),
     (me :> NoNick) @@ (o1 :> bobT) @@ (o2 :> bobT)}

MCPasts == {<<>>, <<former, former>>, <<bot, former>>}

Budget(m, l, r, li, lo, s) ==
    [moves |-> m, lines |-> l, renames |-> r, lists |-> li, lost |-> lo, switches |-> s]

MCBudgets ==
    {Budget(3, 1, 0, 0, 0, 0), Budget(3, 0, 0, 0, 0, 1), Budget(2, 1, 0, 0, 0, 1),
     Budget(3, 0, 0, 1, 0, 0), Budget(3, 0, 0, 0, 1, 0), Budget(2, 1, 1, 1, 0, 0)}

Symmetry == Permutations(Others)
=============================================================================
