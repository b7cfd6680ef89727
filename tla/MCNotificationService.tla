------------------------ MODULE MCNotificationService ------------------------
(* Small instances of NotificationService for TLC. *)
EXTENDS NotificationService, TLC

CONSTANTS e1, e2, b1,  \* two events of one user, and a broken one
          r1, r2, s1, s2

TheUser  == [e \in Event |-> "user"]
TheWants == [e \in Event |-> CASE e = e1 -> <<"email", "webhook">>
                               [] e = e2 -> <<"webhook", "sms">>
                               [] OTHER  -> <<>>]
TheLimit == [c \in Channel |-> 1]

SpreadHome == (s1 :> r1) @@ (s2 :> r2)
SharedHome == (s1 :> r1) @@ (s2 :> r1)
SoleHome   == (s1 :> r1)
=============================================================================
