---------------------------- MODULE MCRunDelivery ----------------------------
EXTENDS RunDelivery

CONSTANTS r1, r2, sub, push, get

MCRunOf == [q \in Capture |-> IF q = get THEN r2 ELSE r1]
MCOrigin == [q \in Capture |->
               CASE q = sub -> "subscribe" [] q = push -> "push" [] q = get -> "get"]
MCUpdates == [r \in Run |-> IF r = r1 THEN 2 ELSE 0]
=============================================================================
