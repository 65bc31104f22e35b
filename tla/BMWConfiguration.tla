--------------------------- MODULE BMWConfiguration ---------------------------
(***************************************************************************)
(* What a configurator link says: the requirements the parser reads from   *)
(* it and the configuration the resolver lists in the dealer's mail.       *)
(*                                                                         *)
(* A code is its first letter (P paint, F upholstery), an id and whether   *)
(* the option catalogue has a name for it; a model is its code, whether it *)
(* is catalogued and whether the link writes it in capitals.  The order of *)
(* the option buckets is layout and left out.                              *)
(***************************************************************************)
EXTENDS Integers, Sequences, FiniteSets

CONSTANT None

IsCode(c) ==
  /\ DOMAIN c = {"letter", "id", "known"}
  /\ c.letter \in {"P", "F", "S"} /\ c.known \in BOOLEAN

(* url: the resolved link; short: it could not be resolved, so that only   *)
(* the id from its path is known.                                          *)
IsLink(l) ==
  /\ DOMAIN l = {"url", "cfg", "date", "short", "model", "codes"}
  /\ l.short \in BOOLEAN /\ (l.short => l.date = None)
  /\ DOMAIN l.model = {"code", "known", "capitals"}
  /\ {l.model.known, l.model.capitals} \subseteq BOOLEAN
  /\ DOMAIN l.codes = 1..Len(l.codes) /\ \A i \in DOMAIN l.codes : IsCode(l.codes[i])

(* _deduplicate: the places of the first of equal codes. *)
Places(l) == {i \in DOMAIN l.codes : \A j \in 1..(i - 1) : l.codes[j] # l.codes[i]}

Lettered(l, letter) == {i \in Places(l) : l.codes[i].letter = letter}
Known(l, letter) == {i \in Lettered(l, letter) : l.codes[i].known}

(* The first and the last of some places, if there is one. *)
First(places) == {i \in places : \A j \in places : i <= j}
Final(places) == {i \in places : \A j \in places : j <= i}

Requirement(about, code, named) == [about |-> about, code |-> code, named |-> named]

(* A requirement read from a code, and a feature: a requirement with its  *)
(* place in the order.                                                     *)
FromCode(about, c) == Requirement(about, c.id, c.known)
Feature(order, requirement) == [order |-> order, requirement |-> requirement]

(* _extract: the first paint and the first upholstery, known or not, then  *)
(* the options that are known.  The rest is reported as a warning.         *)
FeaturesOf(l) ==
  LET paint == First(Lettered(l, "P"))
      upholstery == First(Lettered(l, "F"))
      options == Known(l, "S")
      chosen == 1 + Cardinality(paint) + Cardinality(upholstery)
  IN IF l.short THEN {}
     ELSE {Feature(1, Requirement("model", l.model.code, l.model.known /\ l.model.capitals))}
          \cup {Feature(2, FromCode("paint", l.codes[i])) : i \in paint}
          \cup {Feature(chosen, FromCode("upholstery", l.codes[i])) : i \in upholstery}
          \cup {Feature(chosen + Cardinality({j \in options : j <= i}),
                        FromCode("option", l.codes[i])) : i \in options}

(* resolve_bmw_configuration: the last known paint and upholstery and the  *)
(* known options; whatever is unknown is only listed as such.  A link names*)
(* no accessories.                                                         *)
Resolved(l) ==
  LET Ids(places) == {l.codes[i].id : i \in places} IN
  IF l.short
  THEN [model |-> "BMW", named |-> FALSE,
        color |-> {}, interior |-> {}, options |-> {}, unknown |-> {}]
  ELSE [model |-> l.model.code, named |-> l.model.known,
        color |-> Ids(Final(Known(l, "P"))), interior |-> Ids(Final(Known(l, "F"))),
        options |-> Ids(Known(l, "S")),
        unknown |-> Ids({i \in Places(l) : ~ l.codes[i].known})]

(* Mutant: codes without a name are asked for by their code. *)
AskedUnknownToo(r) ==
  {Requirement("model", r.model, r.named)}
  \cup {Requirement("paint", id, TRUE) : id \in r.color}
  \cup {Requirement("upholstery", id, TRUE) : id \in r.interior}
  \cup {Requirement("option", id, TRUE) : id \in r.options \cup r.unknown}

(* format_resolved_configuration_items: what the mail asks for. *)
Asked(r) ==
  {Requirement("model", r.model, r.named)}
  \cup {Requirement("paint", id, TRUE) : id \in r.color}
  \cup {Requirement("upholstery", id, TRUE) : id \in r.interior}
  \cup {Requirement("option", id, TRUE) : id \in r.options}

(* A link as the configurator writes it: one paint, one upholstery, the    *)
(* model in capitals.  Other links pass too.                               *)
IsPlain(l) ==
  /\ ~ l.short /\ l.model.capitals
  /\ \A letter \in {"P", "F"} : \A i, j \in Lettered(l, letter) : i = j
=============================================================================
