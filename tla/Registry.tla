------------------------------ MODULE Registry ------------------------------
(***************************************************************************)
(* The registry of modules: which modules there are, with what each needs, *)
(* and which are installed and active, for one application and tenant.     *)
(* Modules are added and never changed.                                    *)
(***************************************************************************)
EXTENDS Learning

RegistryOps == {"createModule", "findAllModules", "createRegistry", "updateRegistry",
                "findAllRegistries", "checkModuleAccess"}

ModuleRows == [key : Keys, deps : SUBSET Keys]
RegistryRows == [key : Keys, active : BOOLEAN]

\* The least set that has what k needs and what its members need
HasNeeds(k, ks) ==
  \A m \in Table("createModule") : rows[m].key \in ks \cup {k} => rows[m].deps \subseteq ks
Dependencies(k) == {d \in Keys : \A ks \in SUBSET Keys : HasNeeds(k, ks) => d \in ks}
\* and the least that has those who need k or one of its members
HasUsers(k, ks) ==
  \A m \in Table("createModule") : rows[m].deps \cap (ks \cup {k}) # {} => rows[m].key \in ks
Dependents(k) == {d \in Keys : \A ks \in SUBSET Keys : HasUsers(k, ks) => d \in ks}
Installed(k) == {x \in Table("createRegistry") : rows[x].key = k}
ActiveModules == {rows[x].key : x \in {y \in Table("createRegistry") : rows[y].active}}
InstalledModules == {rows[x].key : x \in Table("createRegistry")}

----------------------------------------------------------------------------
createModule(r) ==
  /\ \A m \in Table("createModule") : rows[m].key # Key(r)
  /\ Insert(r, "createModule", [key |-> Key(r), deps |-> call[r].to])

FindModules(r) ==
  /\ Began(r, "createRegistry")
  /\ \E m \in Table("createModule") : rows[m].key = Key(r)
  /\ Hold(r, Dependencies(Key(r)))
  /\ Goto(r, IF Dependencies(Key(r)) = {} THEN "insert_registry" ELSE "find_installed")
  /\ UNCHANGED <<rows, locals>>

\* Mutation: what is installed counts although it is not active.
FindAnyInstalled(r) ==
  /\ pc[r] = "find_installed"
  /\ held[r] \subseteq InstalledModules
  /\ Goto(r, "insert_registry")
  /\ UNCHANGED <<recordVars, locals>>

FindInstalled(r) ==
  /\ pc[r] = "find_installed"
  /\ held[r] \subseteq ActiveModules
  /\ Goto(r, "insert_registry")
  /\ UNCHANGED <<recordVars, locals>>

\* A module is installed once.
InsertRegistry(r) ==
  /\ pc[r] = "insert_registry"
  /\ Installed(Key(r)) = {}
  /\ Put(r, [key |-> Key(r), active |-> Arg(r) # "OFF"])
  /\ Goto(r, "ok")
  /\ UNCHANGED <<held, locals>>

----------------------------------------------------------------------------
\* Only what is active, and is to be turned off, is looked at more closely.
FindRegistry(r) ==
  /\ Began(r, "updateRegistry")
  /\ Find(r, IF Arg(r) = "OFF" /\ rows[On(r)].active THEN "find_dependents" ELSE "save_registry")

FindDependents(r) ==
  /\ pc[r] = "find_dependents"
  /\ Hold(r, Dependents(seen[r].key))
  /\ Goto(r, IF Dependents(seen[r].key) = {} THEN "save_registry" ELSE "find_active")
  /\ UNCHANGED <<rows, locals>>

FindActive(r) ==
  /\ pc[r] = "find_active"
  /\ held[r] \cap ActiveModules = {}
  /\ Goto(r, "save_registry")
  /\ UNCHANGED <<recordVars, locals>>

\* ON, OFF, or a new version and nothing else
SaveRegistry(r) ==
  /\ pc[r] = "save_registry"
  /\ Save(r, [seen[r] EXCEPT !.active = CASE Arg(r) = "ON" -> TRUE
                                          [] Arg(r) = "OFF" -> FALSE
                                          [] OTHER -> @],
          "ok")

----------------------------------------------------------------------------
RegistryAnswers(r) ==
  [findAllModules |-> Table("createModule"),
   findAllRegistries |-> Table("createRegistry"),
   checkModuleAccess |-> {x \in Installed(Key(r)) : rows[x].active}]

AnswerRegistry(r) ==
  /\ Op(r) \in DOMAIN RegistryAnswers(r)
  /\ Answer(r, Op(r), RegistryAnswers(r)[Op(r)])

RegistryStep(r) ==
  \/ createModule(r) \/ FindModules(r) \/ FindInstalled(r) \/ InsertRegistry(r)
  \/ FindRegistry(r) \/ FindDependents(r) \/ FindActive(r) \/ SaveRegistry(r)
  \/ AnswerRegistry(r)
=============================================================================
