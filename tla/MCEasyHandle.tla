---------------------------- MODULE MCEasyHandle ----------------------------
(* The worker, two pollers and a certificate setter for TLC. *)
EXTENDS EasyHandle

CONSTANTS w, p1, p2, s
MCWorkers == {w}
MCPollers == {p1, p2}
MCSetters == {s}

(***************************************************************************)
(* States reached from Init by one call, so that an update can be in force *)
(* when two others overlap: the call was a successful update, or one that  *)
(* threw before it did anything.                                           *)
(***************************************************************************)
AfterFirstCall ==
    /\ settled \in {None, [by |-> s, nth |-> 1, op |-> "CERT"]}
    /\ cert = settled
    /\ handle = [o \in Options |-> IF o \in OfCertificate \cup {"errbuf"}
                                   THEN settled ELSE None]
    /\ stage = [u \in Users |-> "idle"]
    /\ at = [u \in Users |-> 1]
    /\ current = [u \in Users |-> None]
    /\ calls = 1
    /\ sent = [u \in Users |-> Unset]
    /\ strHttpStatus = {}
    /\ mPollingMutex = None
    /\ met = [u \in Users |-> {}]
    /\ before = [u \in Users |-> None]

MCFairSpec == AfterFirstCall /\ [][Next]_vars /\ Fairness
=============================================================================
