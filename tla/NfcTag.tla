-------------------------------- MODULE NfcTag --------------------------------
(***************************************************************************)
(* The tag side of RF discovery: nci/jni/NfcTag.cpp with the discovery     *)
(* events of NativeNfcManager.cpp's nfaConnectionCallback.  The controller *)
(* reports the targets it resolved one by one, the host selects one of     *)
(* them, the activated target is described to Java, and a deactivation     *)
(* clears the description.  The build is the one for the NXP PN547.        *)
(*                                                                         *)
(* A target is what a notification carries: discovery id, protocol, the    *)
(* technology and role it was found with, and "ul": a sel_rsp of 0, the    *)
(* mark of a MIFARE Ultralight.  The arrays mTechList, mTechHandles,       *)
(* mTechLibNfcTypes and mTechParams are one array of records, the target   *)
(* standing for the technology parameters copied from it.                  *)
(***************************************************************************)
EXTENDS Integers, Sequences, FiniteSets

CONSTANTS
    Targets,        \* the targets that can come into the field
    MaxTech,        \* MAX_NUM_TECHNOLOGY, 11 in the code
    Absent

Protocols == {"T1T", "T2T", "T3T", "T3BT", "ISO_DEP", "15693", "KOVIO", "MIFARE", "NFC_DEP"}
Modes == {"POLL_A", "POLL_B", "POLL_F", "POLL_V", "POLL_KOVIO", "LISTEN_A"}

ASSUME NfcTagAssumption ==
    /\ Targets \subseteq [id : Nat \ {0}, protocol : Protocols, mode : Modes, ul : BOOLEAN]
    /\ MaxTech \in Nat \ {0, 1}
    /\ Absent \notin Targets

VARIABLES
    list,               \* mNumTechList and the four arrays, indexed from 0
    mIsActivated,
    mActivationState,
    mProtocol,
    mLastKovio,         \* the Kovio tag last seen, Absent once 500 ms have passed
    nativeTag,          \* what the Java object of the last tag was filled with
    sReaderModeEnabled,
    rf,                 \* the stack: state of the RF interface
    found,              \* the stack: the targets reported in this round
    target,             \* the stack: the target being selected, or active
    stale               \* the round began with entries of an earlier one

tagVars == <<mIsActivated, mActivationState, mProtocol, mLastKovio, nativeTag>>
rfVars == <<rf, found, target, stale>>
allTagVars == <<list, tagVars, sReaderModeEnabled, rfVars>>

-----------------------------------------------------------------------------
(* What a target is to NFC service *)

Indices == 0..(MaxTech - 1)
Blank == [tech |-> "none", id |-> 0, protocol |-> "none", params |-> Absent]
Entry(tech, t) == [tech |-> tech, id |-> t.id, protocol |-> t.protocol, params |-> t]

TechA(t) == t.mode \in {"POLL_A", "LISTEN_A"}

\* The technologies of a target, in the order of the arrays.
Technologies(t) ==
    CASE t.protocol = "T1T" -> <<"NFC_A">>
      [] t.protocol = "T2T" -> IF t.ul THEN <<"NFC_A", "MIFARE_UL">> ELSE <<"NFC_A">>
      [] t.protocol = "T3T" -> <<"NFC_F">>
      [] t.protocol = "T3BT" -> <<"NFC_B">>
      [] t.protocol = "ISO_DEP" ->
            IF TechA(t) THEN <<"ISO_DEP", "NFC_A">>
            ELSE IF t.mode = "POLL_B" THEN <<"ISO_DEP", "NFC_B">> ELSE <<"ISO_DEP">>
      [] t.protocol = "15693" -> <<"NFC_V">>
      [] t.protocol = "KOVIO" -> <<"NFC_BARCODE">>
      [] t.protocol = "MIFARE" -> <<"NFC_A", "MIFARE_CLASSIC">>
      [] OTHER -> <<"UNKNOWN">>

\* List l with the technologies of t from index n on.
WithTechs(l, n, techs, t) ==
    [num |-> n + Len(techs),
     at |-> [i \in Indices |->
                IF i \in n..(n + Len(techs) - 1) THEN Entry(techs[i - n + 1], t) ELSE l.at[i]]]

\* Mutant: what the list held stays in it.
DiscoverActivatedAppends(l, t) ==
    IF l.num + 2 <= MaxTech THEN WithTechs(l, l.num, Technologies(t), t) ELSE l

\* discoverTechnologies for an activation: the list starts anew.
DiscoverActivated(l, t) == WithTechs(l, 0, Technologies(t), t)

\* Mutant: the number of entries is not looked at.
DiscoverResultUnbounded(l, t) == WithTechs(l, l.num, Technologies(t), t)

(* discoverTechnologies for a discovery result: t is appended, its second   *)
(* technology only if that fits.  MIFARE counts the second all the same,    *)
(* and writes nothing but its name.                                         *)
DiscoverResult(l, t) ==
    LET n == l.num
        techs == IF t.protocol \in {"T3BT", "KOVIO"} THEN <<"UNKNOWN">> ELSE Technologies(t)
    IN  IF n >= MaxTech THEN l
        ELSE IF t.protocol = "MIFARE"
        THEN [num |-> n + 2,
              at |-> [i \in Indices |->
                        IF i = n THEN Entry("MIFARE_CLASSIC", t)
                        ELSE IF i = n + 1 THEN [l.at[i] EXCEPT !.tech = "NFC_A"]
                        ELSE l.at[i]]]
        ELSE WithTechs(l, n, IF n < MaxTech - 1 THEN techs ELSE <<techs[1]>>, t)

resetTechnologies == [num |-> 0, at |-> [i \in Indices |-> Blank]]

-----------------------------------------------------------------------------
(* The choice among several targets *)

\* What a loop over mNumTechList reads.  The word after the arrays is
\* mNumTechList itself, which is no protocol number the loops look for.
Listed(l) == {i \in Indices : i < l.num}
First(S) == CHOOSE i \in S : \A j \in S : i <= j

P2pEntries(l) == {i \in Listed(l) : l.at[i].protocol = "NFC_DEP"}
isP2pDiscovered(l) == P2pEntries(l) # {}

FirstOf(l, S) == IF S = {} THEN Blank ELSE l.at[First(S)]

\* Mutant: the first peer, whatever its technology.
FirstP2p(l) == FirstOf(l, P2pEntries(l))

\* selectP2p: technology F before technology A.
P2pChoice(l) ==
    LET ofMode(m) == {i \in P2pEntries(l) : l.at[i].params.mode = m}
    IN  FirstOf(l, IF ofMode("POLL_F") # {} THEN ofMode("POLL_F") ELSE ofMode("POLL_A"))

\* selectFirstTag
TagChoice(l) == FirstOf(l, {i \in Listed(l) : l.at[i].protocol # "NFC_DEP"})

\* NFA_Select may refuse at once: then the controller goes on waiting.
Select(e) ==
    \/ /\ e # Blank
       /\ target' = [id |-> e.id, protocol |-> e.protocol]
       /\ rf' = "selecting"
    \/ /\ rf' = "waiting"
       /\ target' = Absent

handleRfDiscoveryEvent(l) ==
    IF ~sReaderModeEnabled /\ isP2pDiscovered(l)
    THEN Select(P2pChoice(l)) /\ list' = resetTechnologies
    ELSE Select(TagChoice(l)) /\ list' = l

-----------------------------------------------------------------------------
(* The Java object of a tag *)

\* mTechPollBytes of an entry: which bytes, and the target they come from.
PollBytes(e, t) ==
    CASE TechA(e.params) -> <<"sens_res", e.params>>
      [] e.params.mode = "POLL_B" -> IF e.tech = "NFC_B" THEN <<"sensb_res", e.params>> ELSE <<>>
      [] e.params.mode = "POLL_F" -> <<"PMm and system code", e.params, t>>
      [] e.params.mode = "POLL_V" -> <<"afi and dsfid", t>>
      [] OTHER -> <<>>

\* mTechActBytes of an entry.
ActBytes(e, t) ==
    CASE e.protocol \in {"T1T", "T2T", "MIFARE"} -> <<"sel_rsp", e.params>>
      [] e.protocol = "ISO_DEP" /\ e.tech = "ISO_DEP" ->
            <<IF TechA(e.params) THEN "historical bytes" ELSE "higher layer response", t>>
      [] e.protocol = "ISO_DEP" /\ e.tech = "NFC_A" -> <<"sel_rsp", e.params>>
      [] e.protocol = "15693" -> <<"afi and dsfid", t>>
      [] OTHER -> <<>>

\* mUid, from the parameters of the first entry.
Uid(l, t) ==
    LET p == l.at[0].params
    IN  CASE p.mode = "POLL_KOVIO" -> <<"uid", p>>
          [] TechA(p) -> <<"nfcid1", p>>
          [] p.mode = "POLL_B" -> <<IF t.protocol = "T3BT" THEN "pupiid" ELSE "nfcid0", p>>
          [] p.mode = "POLL_F" -> <<"nfcid2", p>>
          [] p.mode = "POLL_V" -> <<"reversed uid", t>>

\* mTechList, mTechHandles and mTechLibNfcTypes, with the bytes of each entry.
TechMembers(l, t) ==
    [i \in Listed(l) |->
        [tech |-> l.at[i].tech, handle |-> l.at[i].id, type |-> l.at[i].protocol,
         poll |-> PollBytes(l.at[i], t), act |-> ActBytes(l.at[i], t)]]

createNativeNfcTag(l, t) == [techs |-> TechMembers(l, t), uid |-> Uid(l, t)]

-----------------------------------------------------------------------------
(* The events *)

TagInit ==
    /\ list = resetTechnologies
    /\ mIsActivated = FALSE
    /\ mActivationState = "Idle"
    /\ mProtocol = Absent
    /\ mLastKovio = Absent
    /\ nativeTag = Absent
    /\ sReaderModeEnabled = FALSE
    /\ rf = "discovery"
    /\ found = {}
    /\ target = Absent
    /\ stale = FALSE

\* NFA_DISC_RESULT_EVT: one of the targets; after the last one is chosen.
DiscResult(t, more) ==
    LET l == DiscoverResult(list, t)
    IN  /\ rf = "discovery"
        /\ t \notin found
        /\ found' = found \cup {t}
        /\ IF more THEN list' = l /\ UNCHANGED <<rf, target>> ELSE handleRfDiscoveryEvent(l)
        /\ UNCHANGED <<tagVars, sReaderModeEnabled, stale>>

\* NFA_SELECT_RESULT_EVT with an error.
SelectFailed ==
    /\ rf = "selecting"
    /\ rf' = "deactivating"
    /\ UNCHANGED <<list, tagVars, sReaderModeEnabled, found, target, stale>>

\* The target that becomes active: the one selected, or a lone one.
MayActivate(t) ==
    \/ /\ rf = "selecting" /\ t \in found
       /\ target.id = t.id /\ target.protocol = t.protocol
    \/ rf = "discovery" /\ found = {}

\* IsSameKovio: activated again within 500 ms.
IsSameKovio(t) == t.protocol = "KOVIO" /\ mLastKovio = t

\* NFA_ACTIVATED_EVT of a peer: tags have no part in it.
ActivatedP2p(t) ==
    /\ t.protocol = "NFC_DEP"
    /\ rf' = IF sReaderModeEnabled THEN "deactivating" ELSE "active"
    /\ UNCHANGED <<list, mProtocol, mLastKovio, nativeTag>>

\* NFA_ACTIVATED_EVT of a tag, or of this device as a card.
ActivatedTag(t) ==
    LET l == DiscoverActivated(list, t)
    IN  /\ t.protocol # "NFC_DEP"
        /\ rf' = "active"
        /\ IF t.mode = "LISTEN_A" THEN UNCHANGED <<list, mProtocol, mLastKovio, nativeTag>>
           ELSE IF IsSameKovio(t)
           THEN /\ list' = [list EXCEPT !.at[0].params = t]
                /\ UNCHANGED <<mProtocol, mLastKovio, nativeTag>>
           ELSE /\ list' = l
                /\ mProtocol' = t.protocol
                /\ mLastKovio' = IF t.protocol = "KOVIO" THEN t ELSE mLastKovio
                /\ nativeTag' = createNativeNfcTag(l, t)

Activated(t) ==
    /\ MayActivate(t)
    /\ mIsActivated' = TRUE
    /\ mActivationState' = "Active"
    /\ target' = t
    /\ ActivatedP2p(t) \/ ActivatedTag(t)
    /\ UNCHANGED <<sReaderModeEnabled, found, stale>>

\* NFA_DEACTIVATED_EVT to idle or discovery.
Deactivated ==
    /\ rf \in {"active", "deactivating"}
    /\ mIsActivated' = FALSE
    /\ mActivationState' = "Idle"
    /\ mProtocol' = Absent
    /\ list' = resetTechnologies
    /\ rf' = "discovery"
    /\ found' = {}
    /\ target' = Absent
    /\ stale' = FALSE
    /\ UNCHANGED <<mLastKovio, nativeTag, sReaderModeEnabled>>

(* RF discovery stops and starts again before anything was activated: no   *)
(* event says so to NfcTag, which keeps what it listed.                    *)
Restart ==
    /\ rf \in {"discovery", "waiting"}
    /\ found # {}
    /\ rf' = "discovery"
    /\ found' = {}
    /\ target' = Absent
    /\ stale' = (list.num > 0)
    /\ UNCHANGED <<list, tagVars, sReaderModeEnabled>>

KovioForgotten ==
    /\ mLastKovio # Absent
    /\ mLastKovio' = Absent
    /\ UNCHANGED <<list, mIsActivated, mActivationState, mProtocol, nativeTag,
                   sReaderModeEnabled, rfVars>>

\* nfcManager_doEnableReaderMode and nfcManager_doDisableReaderMode
SetReaderMode ==
    /\ sReaderModeEnabled' = ~sReaderModeEnabled
    /\ UNCHANGED <<list, tagVars, rfVars>>

TagNext ==
    \/ \E t \in Targets, more \in BOOLEAN : DiscResult(t, more)
    \/ \E t \in Targets : Activated(t)
    \/ SelectFailed \/ Deactivated \/ Restart \/ KovioForgotten \/ SetReaderMode

TagSpec == TagInit /\ [][TagNext]_allTagVars

-----------------------------------------------------------------------------
(* Properties *)

EntryType == [tech : {"none", "NFC_A", "NFC_B", "NFC_F", "NFC_V", "ISO_DEP", "MIFARE_UL",
                      "MIFARE_CLASSIC", "NFC_BARCODE", "UNKNOWN"},
              id : Nat, protocol : Protocols \cup {"none"}, params : Targets \cup {Absent}]

(* The shape of the state; mNumTechList goes past the arrays by at most the *)
(* one that MIFARE counts without room for it.                              *)
TypeOK ==
    /\ list.num \in 0..(MaxTech + 1)
    /\ list.at \in [Indices -> EntryType]
    /\ mIsActivated \in BOOLEAN
    /\ mActivationState \in {"Idle", "Active"}
    /\ mProtocol \in Protocols \cup {Absent}
    /\ mLastKovio \in Targets \cup {Absent}
    /\ sReaderModeEnabled \in BOOLEAN
    /\ rf \in {"discovery", "selecting", "waiting", "active", "deactivating"}
    /\ found \subseteq Targets
    /\ stale \in BOOLEAN

\* The values in the description of a tag that were read from target t.
OfTarget(t, bytes) == \A i \in 2..Len(bytes) : bytes[i] = t

(* The Java object of a tag is filled from arrays that discovery results,   *)
(* earlier tags and the activation all write.  It describes the tag that    *)
(* was activated and nothing else: every technology carries its discovery   *)
(* id and protocol, and all bytes come from its parameters.                 *)
TagIsTheActiveTarget ==
    rf = "active" /\ mProtocol # Absent =>
        /\ mProtocol = target.protocol
        /\ DOMAIN nativeTag.techs = 0..(Len(Technologies(target)) - 1)
        /\ \A i \in DOMAIN nativeTag.techs :
              LET n == nativeTag.techs[i]
              IN  /\ n.tech = Technologies(target)[i + 1]
                  /\ n.handle = target.id /\ n.type = target.protocol
                  /\ OfTarget(target, n.poll) /\ OfTarget(target, n.act)
        /\ OfTarget(target, nativeTag.uid)

(* What is selected was reported in this round: a peer if one was reported  *)
(* and reader mode is off, over technology F if it answers there, and the   *)
(* protocol is the one reported under that id.  It needs an emptied list    *)
(* at the start of the round, and room for all that is reported.            *)
SelectFollowsDiscovery ==
    [][ /\ rf = "discovery" /\ rf' = "selecting" /\ ~stale
        /\ 2 * Cardinality(found') <= MaxTech
        => \E t \in found' :
            /\ target' = [id |-> t.id, protocol |-> t.protocol]
            /\ IF \E p \in found' : p.protocol = "NFC_DEP" /\ ~sReaderModeEnabled
               THEN /\ t.protocol = "NFC_DEP"
                    /\ t.mode = "POLL_F" \/ ~\E p \in found' : p.protocol = "NFC_DEP" /\ p.mode = "POLL_F"
               ELSE t.protocol # "NFC_DEP" ]_allTagVars
=============================================================================
