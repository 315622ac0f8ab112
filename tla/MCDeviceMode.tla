---------------------------- MODULE MCDeviceMode ----------------------------
(***************************************************************************)
(* Small instances of DeviceMode for TLC.                                  *)
(***************************************************************************)
EXTENDS DeviceMode

Once(may) == [may |-> may, starts |-> 3, events |-> 1, faults |-> 1, kills |-> 0]

MCPlans ==
    { (* sessions come and go *)
      Once({"hydrate", "background", "sync", "login", "profile", "logout",
            "switchContext", "upgrade", "reset", "revoke", "suspend"}),
      (* screens under a switch *)
      Once({"background", "sync", "write", "revalidate", "switchMode", "login",
            "logout", "reset", "disable", "revoke"}),
      (* the process dies *)
      [Once({"hydrate", "background", "sync", "login", "switchMode", "reset"})
          EXCEPT !.kills = 1],
      (* a recovery fails, and its clearing too *)
      [Once({"hydrate", "background", "switchMode", "reset"}) EXCEPT !.faults = 2],
      (* and is refused *)
      [Once({"sync", "reset", "suspend"}) EXCEPT !.events = 2],
      (* several recoveries and failures between the writes of one screen *)
      [may |-> {"hydrate", "background", "write", "reset"},
       starts |-> 5, events |-> 2, faults |-> 3, kills |-> 0],
      (* a recovered session is switched from, recovered again, and revoked *)
      [may |-> {"hydrate", "background", "switchMode", "reset", "revoke"},
       starts |-> 4, events |-> 2, faults |-> 0, kills |-> 0] }

(* The operator logs in while the background task recovers. *)
MCBackgroundPlans ==
    {[Once({"background", "login", "reset"}) EXCEPT !.starts = 2, !.faults = 0]}
=============================================================================
