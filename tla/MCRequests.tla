----------------------------- MODULE MCRequests -----------------------------
(***************************************************************************)
(* Small instances of Requests for TLC.                                    *)
(***************************************************************************)
EXTENDS Requests

CONSTANTS r1, r2, shop, test, office, seller, clerk, next

(* A superadmin at a terminal in production and in the Sandbox, and without *)
(* a tenant; an admin at a terminal, and one with a temporary password.     *)
(* next is the session that any of them gets in exchange.                   *)
Who(mode, must, superadmin, terminal) ==
    [mode |-> mode, must |-> must, superadmin |-> superadmin, terminal |-> terminal,
     successor |-> next]

MCPrincipals ==
    [s \in {shop, test, office, seller, clerk, next} |->
        CASE s = shop -> Who("production", FALSE, TRUE, TRUE)
          [] s = test -> Who("sandbox", FALSE, TRUE, TRUE)
          [] s = office -> Who("account", FALSE, TRUE, FALSE)
          [] s = seller -> Who("production", FALSE, FALSE, TRUE)
          [] s = clerk -> Who("production", TRUE, FALSE, FALSE)
          [] OTHER -> Who("production", FALSE, TRUE, TRUE)]

(* Sales of one moment.  The payment of the second is of an earlier release *)
(* and still pending, the third is deleted, the last is not sold yet.       *)
MCSales ==
    [s \in Sale |-> CASE s = 1 -> Corrected(Printed(Sold(1, 2), "success"), 1, 1)
                      [] s = 2 -> [Sold(1, 1) EXCEPT !.paid = FALSE]
                      [] s = 3 -> [Sold(1, 1) EXCEPT !.deleted = TRUE]
                      [] OTHER -> NoSale]

Send(route, session) == [route |-> route, session |-> session, sale |-> 1, base |-> 2]
Settle == [Send("setTransactionPaymentStatus", shop) EXCEPT !.sale = 2, !.base = 1]
Sell == [Send("createTransaction", shop) EXCEPT !.sale = 4]

Plan(requests, most) ==
    [requests |-> requests, live |-> {requests[r].session : r \in DOMAIN requests},
     faults |-> most[1], events |-> most[2], writes |-> most[3]]
Alone(x, most) == Plan(r1 :> x, most)
Both(x, y, most) == Plan(r1 :> x @@ r2 :> y, most)

(* Every route for every principal, with a fault and a change of sessions;  *)
(* readers while sales change; requests that meet.                          *)
MCPlans ==
    {Alone(Send(route, s), <<1, 1, 0>>) : route \in DOMAIN Routes, s \in {shop, test, office, seller, clerk}}
    \cup {Alone(Send(route, office), <<1, 1, 0>>) : route \in DOMAIN PublicRoutes}
    \cup {Alone(Settle, <<1, 0, 1>>), Alone(Sell, <<1, 0, 1>>),
          Alone(Send("listTransactions", seller), <<0, 0, 2>>)}
    \cup {Alone(Send(route, shop), <<0, 0, 1>>) :
             route \in {"getTransaction", "dashboard", "exportTransactions", "listRevisions",
                        "deleteTransaction", "correctTransaction"}}
    \cup {Both(Send("switchMode", test), Send("switchMode", test), <<1, 1, 0>>),
          Both(Send("switchMode", test), Send("listTransactions", test), <<0, 1, 0>>),
          Both(Send("switchContext", shop), Send("logout", shop), <<1, 1, 0>>),
          Both(Send("login", office), Send("login", office), <<1, 0, 0>>),
          Both(Send("login", office), Send("resetManagedPassword", office), <<0, 0, 0>>),
          Both(Send("listRevisions", shop), Send("listRevisions", shop), <<1, 0, 0>>),
          Both(Send("listRevisions", shop), Send("correctTransaction", shop), <<0, 0, 0>>),
          Both(Send("dashboard", shop), Send("deleteTransaction", shop), <<0, 0, 0>>)}
=============================================================================
