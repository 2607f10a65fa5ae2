------------------------------ MODULE MCQuota ------------------------------
(* Two requests of one guest and one of another guest at the same address. *)
(* Of the windows two stand for all three: each has the same three steps.  *)
EXTENDS Quota, TLC

CONSTANTS alice1, alice2, bob,      \* handlers
          short, long, tokens,      \* counters of the first guest
          ip                        \* counter of the address

MCHandlers == {alice1, alice2, bob}
MCRequestKeys == {short, long, ip}
MCTokenKeys == {tokens}

MCKeysOf == [h \in MCHandlers |-> IF h = bob THEN <<ip>> ELSE <<short, tokens, long, ip>>]
MCLimit == [k \in MCRequestKeys \cup MCTokenKeys |-> 2]

=============================================================================
