----------------------------- MODULE MCAccounts -----------------------------
(* Instances of Accounts for TLC. *)
EXTENDS Accounts, TLC

CONSTANTS left, right, app,      \* two tabs of one browser, and the application
          browser, phone,
          c1, c2, c3

MCDeviceOf == (left :> browser) @@ (right :> browser) @@ (app :> phone)

MCFirstToken == (browser :> 1) @@ (phone :> 2)

Call(page, entry, good, amount) ==
  [page |-> page, entry |-> entry, right |-> good, amount |-> amount]

Three(x, y, z) == (c1 :> x) @@ (c2 :> y) @@ (c3 :> z)

(* Calls of one page and of two tabs at once; a wrong code next to a right *)
(* one, and twice; a login whose code two devices use, and two logins next *)
(* to a wrong one; a logout next to calls of the same browser and of the   *)
(* phone; movements that add up to more than the limit.                    *)
MCScenarios ==
  {Three(Call(left, "READ", TRUE, 0), Call(left, "TRANSFER", TRUE, 1),
         Call(right, "READ", TRUE, 0)),
   Three(Call(left, "TRANSFER", FALSE, 1), Call(app, "TRANSFER", FALSE, 1),
         Call(right, "TRANSFER", TRUE, 1)),
   Three(Call(left, "LOGIN", TRUE, 0), Call(left, "VERIFY", TRUE, 0),
         Call(app, "VERIFY", TRUE, 0)),
   Three(Call(left, "LOGIN", TRUE, 0), Call(app, "LOGIN", TRUE, 0),
         Call(right, "VERIFY", FALSE, 0)),
   Three(Call(right, "LOGOUT", TRUE, 0), Call(left, "READ", TRUE, 0),
         Call(app, "READ", TRUE, 0)),
   Three(Call(left, "TRANSFER", TRUE, 2), Call(left, "WITHDRAW", TRUE, 2),
         Call(app, "TRANSFER", TRUE, 1))}
=============================================================================
