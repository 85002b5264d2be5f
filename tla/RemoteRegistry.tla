---------------------------- MODULE RemoteRegistry ----------------------------
(***************************************************************************)
(* The remote agents a desktop knows (remote/registry.rs, and the command  *)
(* that adds one, remote/commands.rs): a list in memory under one mutex,   *)
(* written without its tokens to a file that is rewritten in place, and    *)
(* the tokens in the keyring of the system.                                *)
(***************************************************************************)
EXTENDS Naturals, FiniteSets

CONSTANTS
  Agents,           \* agent ids
  MaxRegistryOps    \* bound: additions, removals and starts

ASSUME RegistryAssumption == MaxRegistryOps \in Nat

VARIABLES
  listed,           \* ids in memory
  agentsFile,       \* ids in the file
  torn,             \* whether the file cannot be parsed
  keyring,          \* ids with a token
  registryOps,
  wanted,           \* ghost: ids whose addition succeeded, whose token is there and
                    \* that were not removed
  wasRemoved,       \* ghost: ids that were removed
  hidden,           \* ghost: wanted ids that a start could not read
  clinging          \* ghost: removed ids neither half of whose removal succeeded

registryVars == <<listed, agentsFile, torn, keyring, registryOps, wanted, wasRemoved, hidden,
                  clinging>>

(* What validate_remote_base_url tells hosts apart by. *)
Hosts == {"localhost", "loopback4", "loopback6", "private4", "private6", "public4", "public6",
          "dns", "mapped6", "trailing_dot", "ambiguous4", "non_ascii", "empty"}

Urls == [scheme : {"http", "https", "other"}, host : Hosts, credentials : BOOLEAN]

(* is_loopback_host *)
LoopbackHost(host) == host \in {"localhost", "loopback4", "loopback6"}

(* is_private_or_link_local_ip: IP literals only, the loopback ones too. *)
PrivateIp(host) == host \in {"private4", "private6", "loopback4", "loopback6"}

(* validate_remote_base_url *)
ValidUrl(url) ==
  /\ url.scheme \in {"http", "https"}
  /\ url.host \notin {"mapped6", "trailing_dot", "ambiguous4", "non_ascii", "empty"}
  /\ ~url.credentials
  /\ url.scheme = "http" => LoopbackHost(url.host)
  /\ url.scheme = "https" => ~PrivateIp(url.host)

RegistryInit ==
  /\ listed = {} /\ agentsFile = {} /\ torn = FALSE /\ keyring = {}
  /\ registryOps = 0 /\ wanted = {} /\ wasRemoved = {} /\ hidden = {} /\ clinging = {}

RegistryStep == registryOps < MaxRegistryOps /\ registryOps' = registryOps + 1

(* save_persisted_agents: the file is truncated, then written in place.    *)
SaveAgents(ids) == agentsFile' = ids /\ torn' = FALSE

(* It cannot be opened, or the write stops in the middle: the disk is full *)
(* or the process dies, which RestartDesktop then tells.                   *)
OpenFails == UNCHANGED <<agentsFile, torn>>
WriteTears == agentsFile' = {} /\ torn' = TRUE

(* add_remote_agent: a valid url, an agent that answers the health probe,  *)
(* then its token in the keyring, the list, the file, under a fresh id.    *)
(* An addition whose save fails is an error, though the agent is listed.   *)
AddAgent(a, url) ==
  /\ RegistryStep /\ ValidUrl(url)
  /\ a \notin listed \cup agentsFile \cup keyring \cup wasRemoved
  /\ keyring' = keyring \cup {a}
  /\ listed' = listed \cup {a}
  /\ \/ SaveAgents(listed') /\ wanted' = wanted \cup {a}
     \/ (OpenFails \/ WriteTears) /\ UNCHANGED wanted
  /\ UNCHANGED <<wasRemoved, hidden, clinging>>

(* What a removal takes out of memory, and what the user means by it. *)
Forget(a) ==
  /\ listed' = listed \ {a}
  /\ wanted' = wanted \ {a}
  /\ wasRemoved' = wasRemoved \cup {a}

(* The bug of a removal that leaves the token where it is. *)
RemoveKeepingToken(a) ==
  /\ RegistryStep /\ a \in listed
  /\ Forget(a)
  /\ SaveAgents(listed') \/ OpenFails
  /\ UNCHANGED <<keyring, hidden, clinging>>

(* remove: the token is deleted and the file saved, either of which may    *)
(* fail without a word.                                                    *)
RemoveAgent(a) ==
  /\ RegistryStep /\ a \in listed
  /\ Forget(a)
  /\ \/ /\ keyring' = keyring \ {a}
        /\ SaveAgents(listed') \/ OpenFails \/ WriteTears
        /\ clinging' = clinging \ {a}
     \/ /\ UNCHANGED keyring
        /\ SaveAgents(listed') \/ WriteTears
        /\ clinging' = clinging \ {a}
     \/ /\ UNCHANGED keyring /\ OpenFails
        /\ clinging' = clinging \cup {a}
  /\ UNCHANGED hidden

(* The user wipes a credential of the keyring. *)
WipeToken(a) ==
  /\ RegistryStep /\ a \in keyring
  /\ keyring' = keyring \ {a} /\ wanted' = wanted \ {a}
  /\ UNCHANGED <<listed, agentsFile, torn, wasRemoved, hidden, clinging>>

(* load_persisted_agents: a file that is missing, cannot be read or does   *)
(* not parse is an empty list; an agent whose token is not there, or       *)
(* cannot be read just now (the keyring is locked), is skipped.            *)
RestartDesktop ==
  /\ RegistryStep
  /\ \/ /\ listed' = {} /\ hidden' = hidden \cup wanted
     \/ \E unreadable \in SUBSET Agents :
          /\ listed' = (agentsFile \cap keyring) \ unreadable
          /\ hidden' = hidden \cup (wanted \cap IF torn THEN Agents ELSE unreadable)
  /\ UNCHANGED <<agentsFile, torn, keyring, wanted, wasRemoved, clinging>>

RegistryNext ==
  \/ \E a \in Agents : (\E url \in Urls : AddAgent(a, url)) \/ RemoveAgent(a) \/ WipeToken(a)
  \/ RestartDesktop

(* A removed agent comes back only if neither its token nor its entry      *)
(* could be removed, and an agent whose addition succeeded is missing only *)
(* if some start could not read its token or the file, however saves fail  *)
(* and tear the file in between.                                           *)
RegistryKept ==
  /\ listed \cap wasRemoved \subseteq clinging
  /\ wanted \ hidden \subseteq listed
=============================================================================
