---------------------------- MODULE SecretBroker ----------------------------
(***************************************************************************)
(* The broker of leases on one secret and the provider that holds its      *)
(* versions. The broker asks the provider and waits for the answer, when   *)
(* it issues a lease and again when it validates one; the owner of the     *)
(* secret puts, rotates and revokes it meanwhile. (No part of the          *)
(* application issues leases yet; the callers are those of the tests.)     *)
(*                                                                         *)
(* A lease is the version it was issued for. What else it binds (tenant,   *)
(* task, action, destination, its time and its digest) is compared before  *)
(* the provider is asked, and is one choice here.                          *)
(***************************************************************************)
EXTENDS Naturals

CONSTANTS
  Clients,       \* concurrent callers of the broker
  MaxVersion     \* versions of the secret (bound)

ASSUME BrokerAssumption == MaxVersion \in Nat \ {0}

VARIABLES
  secret,     \* the provider's record: version and whether it is revoked
  epoch,      \* the versions revoked at the broker
  issued,     \* the versions some lease was issued for
  clients,    \* client -> where its call stands
  retired     \* versions rotated away or revoked, and not begun again since (history)

brokerVars == <<secret, epoch, issued, clients, retired>>

Versions == 1 .. MaxVersion
NoSecret == [version |-> 0, revoked |-> FALSE]   \* no record under the name
Client == [at : {"idle", "ask", "compare", "valid"},
           lease : Versions \cup {0}, found : [version : Versions \cup {0}, revoked : BOOLEAN],
           before : SUBSET Versions]   \* retired when it called, and not begun again since

Resting(k) == clients[k].at \in {"idle", "valid"}
Call(at, lease, found, before) == [at |-> at, lease |-> lease, found |-> found, before |-> before]
AtRest == Call("idle", 0, NoSecret, {})
Asking(v) == Call("ask", v, NoSecret, IF v = 0 THEN {} ELSE retired)
\* A call is over: refused, or answered with a lease.
Finish(k) == clients' = [clients EXCEPT ![k] = AtRest]
Usable(found) == found.version # 0 /\ ~found.revoked

BrokerInit ==
  /\ secret = NoSecret
  /\ epoch = {} /\ issued = {} /\ retired = {}
  /\ clients = [k \in Clients |-> AtRest]

\* issueLease looks at its input, validateLease at the lease; a call about no lease has 0 for one.
issueLease(k) ==
  /\ Resting(k)
  /\ clients' = [clients EXCEPT ![k] = Asking(0)] \/ Finish(k)
  /\ UNCHANGED <<secret, epoch, issued, retired>>

validateLease(k, v) ==
  /\ Resting(k) /\ v \in issued
  /\ \/ v \notin epoch /\ clients' = [clients EXCEPT ![k] = Asking(v)]
     \/ Finish(k)
  /\ UNCHANGED <<secret, epoch, issued, retired>>

\* The provider answers, with what it holds now.
metadata(k) ==
  /\ clients[k].at = "ask"
  /\ clients' = [clients EXCEPT ![k] = Call("compare", clients[k].lease, secret, clients[k].before)]
  /\ UNCHANGED <<secret, epoch, issued, retired>>

\* The answer arrives: a lease on the version found, ...
Issue(k) ==
  LET q == clients[k] IN
  /\ q.at = "compare" /\ q.lease = 0
  /\ issued' = IF Usable(q.found) THEN issued \cup {q.found.version} ELSE issued
  /\ Finish(k)
  /\ UNCHANGED <<secret, epoch, retired>>

\* ... or the verdict on a lease.
StillUsable(q) == Usable(q.found)
Current(q) == Usable(q.found) /\ q.found.version = q.lease
Compare(k) ==
  LET q == clients[k] IN
  /\ q.at = "compare" /\ q.lease # 0
  /\ IF Current(q)
     THEN clients' = [clients EXCEPT ![k] = Call("valid", q.lease, NoSecret, q.before)]
     ELSE Finish(k)
  /\ UNCHANGED <<secret, epoch, issued, retired>>

\* The record of version v: the version before it is retired, v is not (any more).
Hold(v) ==
  /\ secret' = [version |-> v, revoked |-> FALSE]
  /\ retired' = (retired \cup ({secret.version} \cap Versions)) \ {v}
  /\ clients' = [k \in Clients |->
       Call(clients[k].at, clients[k].lease, clients[k].found, clients[k].before \ {v})]
  /\ UNCHANGED <<epoch, issued>>

\* The provider: a secret that is put starts again at version 1, whatever it was.
put == Hold(1)
rotate == secret.version < MaxVersion /\ Hold(secret.version + 1)
revokeSecret ==
  /\ secret' = [version |-> secret.version, revoked |-> secret.version # 0]
  /\ retired' = retired \cup ({secret.version} \cap Versions)
  /\ UNCHANGED <<epoch, issued, clients>>

\* The broker revokes a version for good.
revoke(v) ==
  /\ epoch' = epoch \cup {v}
  /\ UNCHANGED <<secret, issued, clients, retired>>

BrokerNext ==
  \/ \E k \in Clients :
       \/ issueLease(k) \/ metadata(k) \/ Issue(k) \/ Compare(k)
       \/ \E v \in Versions : validateLease(k, v)
  \/ put \/ rotate \/ revokeSecret
  \/ \E v \in Versions : revoke(v)

BrokerSpec == BrokerInit /\ [][BrokerNext]_brokerVars

-----------------------------------------------------------------------------
\* The provider's record, the broker's sets and the calls hold what they are declared to.
BrokerTypeOK ==
  /\ secret \in [version : Versions \cup {0}, revoked : BOOLEAN]
  /\ epoch \subseteq Versions /\ issued \subseteq Versions /\ retired \subseteq Versions
  /\ clients \in [Clients -> Client]

\* A lease whose version was rotated away or revoked at the provider before somebody asked
\* for its validation is not found valid, however the call and further rotations overlap;
\* only a secret put anew, whose versions start over and come to it, makes it valid again.
SecretIsCurrent ==
  \A k \in Clients : clients[k].at = "valid" => clients[k].lease \notin clients[k].before
=============================================================================
