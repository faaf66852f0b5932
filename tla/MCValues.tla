------------------------------- MODULE MCValues -------------------------------
(***************************************************************************)
(* The parts of the program in which it is the values that are hard, each  *)
(* in behaviours of its own over many inputs: Conversions, and beside them *)
(* the token scan of strict JSON decoding and the two contract kits over   *)
(* faulty adapters.  They share no state.                                  *)
(***************************************************************************)
EXTENDS Conversions, CompilerInputs, ConditionInputs, JSONInputs, RowInputs, FiniteSets

VARIABLES
  fault,                                         \* of both kits
  source, target, open,                          \* StrictJSON
  store, aliases, writer,                        \* StoreKit
  versions, burnt, held, publisher, reader       \* DefinitionKit

decoding == <<source, target, open>>
stored == <<store, aliases, writer>>
published == <<versions, burnt, held, publisher, reader>>
vars == <<conversion, fault, decoding, stored, published>>

Decoding == INSTANCE StrictJSON WITH Sources <- AllSources, Targets <- AllTargets, Folded <- Fold
StoreTest == INSTANCE StoreKit WITH
  Absent <- Parked,
  Faults <- {"none", "keepsInput", "givesItsOwn", "createsTwice", "savesMissing", "ignoresVersion",
             "ignoresHistory", "ignoresContext", "writesAnyway", "losesHistory", "losesData",
             "checksFirst"}
DefinitionTest == INSTANCE DefinitionKit WITH
  Publishers <- {1, 2, 3}, Readers <- {1, 2}, ReadsPerReader <- 2,
  Faults <- {"none", "oneSequence", "keepsVersion", "burnsVersion", "acceptsInvalid", "keepsInput",
             "givesItsOwn", "resultIsInput", "fallsForward", "firstIsLatest", "ignoresContext",
             "writesAnyway", "allocatesFirst", "showsEarly"}

-----------------------------------------------------------------------------
(* Sources for Surrogates.                                                    *)

Source == INSTANCE SourcePieces

\* A string, closed or not, then text outside and the begin of another.
PieceLists == {<<"quote">> \o s : s \in BoundedSeq(DOMAIN Source!Pieces, 5)}
Spelled(pieces) == FlattenSeq([i \in DOMAIN pieces |-> Source!Pieces[pieces[i]]])
AllSpellings ==
  {[text |-> s, data |-> Spelled(s),
    at |-> [i \in 1 .. Len(s) + 1 |-> Len(Spelled(SubSeq(s, 1, i - 1))) + 1]] : s \in PieceLists}

-----------------------------------------------------------------------------

NoDecoding == source = Parked /\ target = Parked /\ open = Parked
NoStore == store = Parked /\ aliases = Parked /\ writer = Parked
NoVersions ==
  /\ versions = Parked /\ burnt = Parked /\ held = Parked /\ publisher = Parked /\ reader = Parked
NoConversion == NoCompilation /\ NoRules /\ NoRowing /\ NoScanning

MCInit ==
  \/ /\ Init
     /\ fault = Parked /\ NoDecoding /\ NoStore /\ NoVersions
  \/ /\ subject = "json" /\ Decoding!Init
     /\ data = Parked /\ fault = Parked
     /\ NoConversion /\ NoStore /\ NoVersions
  \/ /\ subject = "storetest" /\ StoreTest!Init
     /\ pc = Parked /\ data = Parked
     /\ NoConversion /\ NoDecoding /\ NoVersions
  \/ /\ subject = "definitiontest" /\ DefinitionTest!Init
     /\ pc = Parked /\ data = Parked
     /\ NoConversion /\ NoDecoding /\ NoStore

MCNext ==
  \/ Next /\ UNCHANGED <<fault, decoding, stored, published>>
  \/ /\ subject = "json" /\ Decoding!Next
     /\ UNCHANGED <<subject, data, fault, compilation, choice, rowing, scanning, stored, published>>
  \/ /\ subject = "storetest" /\ StoreTest!Next
     /\ UNCHANGED <<subject, pc, data, compilation, choice, rowing, scanning, decoding, published>>
  \/ /\ subject = "definitiontest" /\ DefinitionTest!Next
     /\ UNCHANGED <<subject, pc, data, compilation, choice, rowing, scanning, decoding, stored>>

MCSpec == MCInit /\ [][MCNext]_vars

-----------------------------------------------------------------------------

(***************************************************************************)
(* "JSON that cannot be consumed without discarding or ambiguously         *)
(* replacing caller input" is refused (jsonstrict ErrInvalid), and what    *)
(* can be consumed is not: a whole value of the type's shape, under the    *)
(* type's own names, once each, is decoded (jsonstrict.Decode).            *)
(***************************************************************************)
DecodeIsRight == subject = "json" => Decoding!NothingIsLost /\ Decoding!CanonicalIsDecoded

(***************************************************************************)
(* An adapter that keeps its promise passes its kit, however the kit's own *)
(* goroutines interleave: whoever of two writers wins, whatever committed  *)
(* version a reader sees (storetest assertConcurrentCAS, definitiontest    *)
(* runRepositoryConcurrentLifecycleContract).                              *)
(***************************************************************************)
NoFalseAlarm ==
  /\ subject = "storetest" => StoreTest!NoFalseAlarm
  /\ subject = "definitiontest" => DefinitionTest!NoFalseAlarm

(***************************************************************************)
(* An adapter that breaks its promise in every run does not pass the kit   *)
(* (the Run functions).  One that breaks it only when calls meet in time   *)
(* may: a test of a race is no proof.                                      *)
(***************************************************************************)
FaultsAreCaught ==
  /\ subject = "storetest" => StoreTest!FaultsAreCaught
  /\ subject = "definitiontest" => DefinitionTest!FaultsAreCaught
=============================================================================
