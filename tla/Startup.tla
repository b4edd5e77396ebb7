------------------------------ MODULE Startup -------------------------------
(***************************************************************************)
(* main() of the server up to jsonserver::start, and the data source from  *)
(* then on: the configuration, the address of the PLC, and the upload of   *)
(* its symbol and data type tables, tried until the PLC answers.           *)
(***************************************************************************)
EXTENDS AdsDataSource

CONSTANTS Configurations,  \* files: [serverType, netID, port], None if there is none
          NetIdParts,      \* 6: how many parts a net id has
          MaxPart,         \* 255
          Ports,           \* 65536: a port is a uint16_t
          DefaultAddr,     \* 127.0.0.1.1.1, port 851
          PlcAddrs,        \* where there is a PLC
          MayFail          \* which of the uploads may fail

(* A net id is the sequence of its parts, None for one that is no number.  *)
ASSUME Addresses ==
  /\ NetIdParts \in Nat /\ MaxPart \in Nat /\ Ports \in Nat \ {0}
  /\ \A c \in Configurations \ {None} : c.netID \in Seq(Int \cup {None}) /\ c.port \in Nat
  /\ MayFail \subseteq {"symbols", "datatypes"}

VARIABLES main,     \* where main() is
          cfg,      \* the configuration it has read
          pAddr

serverVars == <<main, cfg, pAddr, vars>>

StartupInit ==
  /\ main = "configure"
  /\ cfg = None
  /\ pAddr = DefaultAddr
  /\ parsedSymbols = [symbols |-> FALSE, datatypes |-> FALSE]

-----------------------------------------------------------------------------
IsPart(part)      == part # None /\ part \in 0 .. MaxPart
Understood(netID) == Len(netID) = NetIdParts /\ \A i \in DOMAIN netID : IsPart(netID[i])

(* A fault: each part is assigned as soon as it is converted.              *)
PartsAtOnce(addr, netID, port) ==
  LET bad == {i \in DOMAIN netID : ~IsPart(netID[i])}
  IN  [netId |-> [i \in 1 .. NetIdParts |->
                    IF Len(netID) = NetIdParts /\ \A j \in bad : i < j THEN netID[i]
                    ELSE addr.netId[i]],
       port |-> IF Understood(netID) THEN port % Ports ELSE addr.port]

setPlcCommunicationParameters(addr, netID, port) ==
  IF Understood(netID) THEN [netId |-> netID, port |-> port % Ports] ELSE addr

(* The server ends when there is no configuration, when it is not for ADS, *)
(* and, by an exception, when it is not what the code takes it for.        *)
ReadConfiguration ==
  /\ main = "configure"
  /\ \E c \in Configurations :
       /\ cfg' = c
       /\ IF c = None \/ (c # None /\ c.serverType # "ADS")
          THEN main' = "ended" /\ UNCHANGED pAddr
          ELSE /\ main' = "connect"
               /\ pAddr' = setPlcCommunicationParameters(pAddr, c.netID, c.port)
  /\ UNCHANGED vars

(* readInfo.  The result is that of the first of its three reads: when one *)
(* of the others fails the server goes on with a table of whatever is in   *)
(* the buffer, which may read as empty or lead out of the buffer.          *)
ReadInfo ==
  /\ main = "connect"
  /\ pAddr \in PlcAddrs
  /\ \E failed \in SUBSET MayFail :
       \/ /\ main' = "serve"
          /\ parsedSymbols' = [symbols   |-> "symbols" \notin failed,
                               datatypes |-> "datatypes" \notin failed]
       \/ failed # {} /\ main' = "ended" /\ UNCHANGED parsedSymbols
  /\ UNCHANGED <<cfg, pAddr, dataVars>>

(* No PLC, or none that answers now.                                       *)
NoPlcConnection ==
  /\ main = "connect"
  /\ main' = "sleep"
  /\ UNCHANGED <<cfg, pAddr, vars>>

TryAgain ==
  /\ main = "sleep"
  /\ main' = "connect"
  /\ UNCHANGED <<cfg, pAddr, vars>>

(* jsonserver::start: the threads of the server, until the process ends.   *)
Serve == main = "serve" /\ Next /\ UNCHANGED <<main, cfg, pAddr>>

Ended == main = "ended" /\ UNCHANGED serverVars

ServerInit == StartupInit /\ Init

ServerNext ==
  ReadConfiguration \/ ReadInfo \/ NoPlcConnection \/ TryAgain \/ Serve \/ Ended

ServerSpec == ServerInit /\ [][ServerNext]_serverVars

-----------------------------------------------------------------------------
(* The data source talks to the PLC that is configured or to the local one,*)
(* never to one whose address is partly this and partly that.              *)
AddressWhole ==
  pAddr # DefaultAddr => pAddr = [netId |-> cfg.netID, port |-> cfg.port % Ports]
=============================================================================
