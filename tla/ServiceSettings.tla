--------------------------- MODULE ServiceSettings --------------------------
(***************************************************************************)
(* The options and the exported values of ServiceData                      *)
(* (fb303/ServiceData.cpp).  A call takes several locks one after another, *)
(* and pc names the one it takes next: setOption() those of                *)
(* dynamicOptions_, of options_ and of gflags; setExportedValue() the      *)
(* shared lock of exportedValues_, then the exclusive one, which it turns  *)
(* into a shared one before it fills the entry that it has inserted.       *)
(***************************************************************************)
EXTENDS Naturals, FiniteSets

CONSTANTS
    Threads,       \* threads that call ServiceData or serve Thrift requests
    OptionNames,
    FlagNames,     \* the options gflags has a flag for
    Whitelisted,   \* "v" and "vmodule"
    Blacklisted,   \* "logmailer" and "whitelist_flags"
    Texts,         \* values of options, flags and exported values
    Invalid,       \* the values gflags refuses
    DefaultText,   \* what a flag has to begin with
    Empty,         \* the empty string
    ExportedKeys,
    MaxCalls,      \* bound on the calls made
    None

\* The names of options and of exported values belong to two maps.  glog has the
\* flags that are whitelisted, and none of them is one of the blacklisted names.
ASSUME SettingsAssumption ==
    /\ FlagNames \cup Blacklisted \subseteq OptionNames
    /\ Whitelisted \subseteq FlagNames \ Blacklisted
    /\ OptionNames \cap ExportedKeys = {}
    /\ Invalid \subseteq Texts
    /\ {None, Empty, DefaultText} \cap Texts = {} /\ None \notin {Empty, DefaultText}
    /\ None \notin Threads \cup OptionNames \cup ExportedKeys
    /\ MaxCalls \in Nat

VARIABLES
    call,               \* each thread: the call it is in, or Idle
    calls,              \* number of calls made
    options,            \* options_
    dynamicOptions,     \* the names in dynamicOptions_
    getters, setters,   \* those registered with a getter, with a setter
    given,              \* the text each dynamic option's setter was last called with,
                        \* or None: what it does with it is the application's affair
    flags,              \* gflags: the value of each flag, or None
    vlogs,              \* minloglevel has been set to 0
    useOptionsAsFlags,
    exported,           \* exportedValues_: the text of each entry, or None
    upgrader,           \* the thread that holds exportedValues_ for upgrade, or None
    lastSet,            \* history: the text the latest call to set a key has handed on,
                        \* or None if it overlapped another call for the key
    overlapped          \* history: threads whose call has overlapped another one

dynamicVars == <<dynamicOptions, getters, setters, given>>
optionVars == <<options, dynamicVars, flags, vlogs, useOptionsAsFlags>>
exportedVars == <<exported, upgrader>>
settingsVars == <<call, optionVars, exportedVars, lastSet, overlapped>>

Settings == OptionNames \cup ExportedKeys

Idle == [pc |-> "idle", key |-> None, text |-> None]

SettingsInit ==
    /\ call = [t \in Threads |-> Idle]
    /\ options = [k \in OptionNames |-> None]
    /\ dynamicOptions = {} /\ getters = {} /\ setters = {}
    /\ given = [k \in OptionNames |-> None]
    /\ flags = [k \in OptionNames |-> IF k \in FlagNames THEN DefaultText ELSE None]
    /\ vlogs = FALSE
    /\ useOptionsAsFlags = FALSE
    /\ exported = [k \in ExportedKeys |-> None]
    /\ upgrader = None
    /\ lastSet = [k \in Settings |-> None]
    /\ overlapped = {}

At(t, label) == call[t].pc = label
Goto(t, label) == call' = [call EXCEPT ![t].pc = label]

\* The calls under way for key.
Users(key) == {t \in Threads : call[t].key = key}

\* A thread calls; the history notes which calls for the key overlap.
Begin(t, label, key, text) ==
    /\ At(t, "idle") /\ calls < MaxCalls
    /\ calls' = calls + 1
    /\ call' = [call EXCEPT ![t] = [pc |-> label, key |-> key, text |-> text]]
    /\ lastSet' = [lastSet EXCEPT ![key] = None]
    /\ overlapped' = IF Users(key) = {} THEN overlapped
                     ELSE overlapped \cup Users(key) \cup {t}

\* The call returns; unless it overlapped another one, text is what key has.
Return(t, text) ==
    /\ call' = [call EXCEPT ![t] = Idle]
    /\ lastSet' = [lastSet EXCEPT ![call[t].key] = IF t \in overlapped THEN None ELSE text]
    /\ overlapped' = overlapped \ {t}

-----------------------------------------------------------------------------
(***************************************************************************)
(* setOptionWithResult()                                                   *)
(***************************************************************************)
SetOption(t, key, text) ==
    Begin(t, "findDynamic", key, text) /\ UNCHANGED <<optionVars, exportedVars>>

\* Under the shared lock of dynamicOptions_: the setter, if there is one, is
\* called, and may throw.  It is any function of the application, which may also
\* change what the getters of other options return.
FindDynamic(t) ==
    LET key == call[t].key
    IN  /\ At(t, "findDynamic")
        /\ \/ /\ key \notin dynamicOptions
              /\ Goto(t, "storeOption")
              /\ UNCHANGED <<given, lastSet, overlapped>>
           \/ /\ key \in setters
              /\ given' = [given EXCEPT ![key] = call[t].text]
              /\ Return(t, call[t].text)
           \/ /\ key \in dynamicOptions \ setters
              /\ Return(t, None)
              /\ UNCHANGED given
        /\ UNCHANGED <<calls, options, dynamicOptions, getters, setters, flags, vlogs,
                       useOptionsAsFlags, exportedVars>>

ToFlag(key) == key \notin Blacklisted /\ (useOptionsAsFlags \/ key \in Whitelisted)

\* The static option is stored, then useOptionsAsFlags_ is read.
StoreOption(t) ==
    LET key == call[t].key
    IN  /\ At(t, "storeOption")
        /\ options' = [options EXCEPT ![key] = call[t].text]
        /\ \/ ToFlag(key) /\ Goto(t, "setFlag") /\ UNCHANGED <<lastSet, overlapped>>
           \/ ~ToFlag(key) /\ Return(t, call[t].text)
        /\ UNCHANGED <<calls, dynamicVars, flags, vlogs, useOptionsAsFlags, exportedVars>>

\* gflags::SetCommandLineOption(), and again for minloglevel if it was "v" or
\* "vmodule" (setVModuleOption())
SetFlag(t) ==
    LET key == call[t].key
        set == key \in FlagNames /\ call[t].text \notin Invalid
    IN  /\ At(t, "setFlag")
        /\ flags' = IF set THEN [flags EXCEPT ![key] = call[t].text] ELSE flags
        /\ vlogs' = (vlogs \/ (set /\ key \in Whitelisted))
        /\ Return(t, call[t].text)
        /\ UNCHANGED <<calls, options, dynamicVars, useOptionsAsFlags, exportedVars>>

\* registerDynamicOption(): one exclusive lock; either callback may be missing.
RegisterDynamicOption(t, key, gettable, settable) ==
    /\ At(t, "idle") /\ calls < MaxCalls
    /\ calls' = calls + 1
    /\ dynamicOptions' = dynamicOptions \cup {key}
    /\ getters' = IF gettable THEN getters \cup {key} ELSE getters \ {key}
    /\ setters' = IF settable THEN setters \cup {key} ELSE setters \ {key}
    /\ given' = [given EXCEPT ![key] = None]
    /\ lastSet' = [lastSet EXCEPT ![key] = None]
    /\ overlapped' = overlapped \cup Users(key)
    /\ UNCHANGED <<call, options, flags, vlogs, useOptionsAsFlags, exportedVars>>

SetUseOptionsAsFlags(t) ==
    /\ At(t, "idle") /\ calls < MaxCalls
    /\ calls' = calls + 1
    /\ useOptionsAsFlags' = ~useOptionsAsFlags
    /\ UNCHANGED <<call, options, dynamicVars, flags, vlogs, exportedVars, lastSet, overlapped>>

\* What getOption() may return, None standing for the exception it throws: a
\* getter returns what it likes, or throws; without one the text is empty.
OptionTexts(key) ==
    IF key \in getters THEN Texts \cup {Empty, DefaultText, None}
    ELSE IF key \in dynamicOptions THEN {Empty}
    ELSE IF options[key] # None THEN {options[key]} ELSE {flags[key]}

-----------------------------------------------------------------------------
(***************************************************************************)
(* setExportedValue() and deleteExportedKey()                              *)
(***************************************************************************)
\* The threads that keep exportedValues_ locked shared between two steps.
Filling == {t \in Threads : At(t, "fill")}

SetExportedValue(t, key, text) ==
    Begin(t, "tryFill", key, text) /\ UNCHANGED <<optionVars, exportedVars>>

FillEntry(t) ==
    /\ exported' = [exported EXCEPT ![call[t].key] = call[t].text]
    /\ Return(t, call[t].text)
    /\ UNCHANGED <<calls, upgrader, optionVars>>

\* Under the shared lock, which keeps the entry in place
TryFill(t) ==
    /\ At(t, "tryFill")
    /\ \/ exported[call[t].key] # None /\ FillEntry(t)
       \/ /\ exported[call[t].key] = None
          /\ Goto(t, "insert")
          /\ UNCHANGED <<calls, exportedVars, optionVars, lastSet, overlapped>>

\* Under the exclusive lock: operator[] inserts an empty string.
InsertEntry(t) ==
    LET key == call[t].key
    IN  /\ At(t, "insert") /\ Filling = {} /\ upgrader = None
        /\ exported' = [exported EXCEPT ![key] = IF @ = None THEN Empty ELSE @]
        /\ Goto(t, "fill")
        /\ UNCHANGED <<calls, upgrader, optionVars, lastSet, overlapped>>

\* The lock is now a shared one.
Fill(t) == At(t, "fill") /\ FillEntry(t)

DeleteExportedKey(t, key) ==
    /\ exported[key] # None
    /\ Begin(t, "upgrade", key, None)
    /\ UNCHANGED <<optionVars, exportedVars>>

\* The upgrade lock, which shared locks do not exclude
UpgradeLock(t) ==
    /\ At(t, "upgrade") /\ upgrader = None
    /\ \/ exported[call[t].key] = None /\ Return(t, None) /\ UNCHANGED upgrader
       \/ /\ exported[call[t].key] # None
          /\ upgrader' = t
          /\ Goto(t, "erase")
          /\ UNCHANGED <<lastSet, overlapped>>
    /\ UNCHANGED <<calls, exported, optionVars>>

\* Mutant: the entry is erased under the upgrade lock.
EraseEntryUpgrade(t) ==
    /\ At(t, "erase")
    /\ exported' = [exported EXCEPT ![call[t].key] = None]
    /\ upgrader' = None
    /\ Return(t, None)
    /\ UNCHANGED <<calls, optionVars>>

\* moveFromUpgradeToWrite() waits for the shared locks.
EraseEntry(t) ==
    /\ At(t, "erase") /\ Filling = {}
    /\ exported' = [exported EXCEPT ![call[t].key] = None]
    /\ upgrader' = None
    /\ Return(t, None)
    /\ UNCHANGED <<calls, optionVars>>

-----------------------------------------------------------------------------
\* resetAllData(): options_, then exportedValues_, under their exclusive locks
ResetOptions(t) ==
    /\ At(t, "idle") /\ calls < MaxCalls
    /\ calls' = calls + 1
    /\ options' = [k \in OptionNames |-> None]
    /\ Goto(t, "resetExported")
    /\ lastSet' = [k \in Settings |-> IF k \in OptionNames THEN None ELSE lastSet[k]]
    /\ overlapped' = overlapped \cup {u \in Threads : call[u].key \in OptionNames}
    /\ UNCHANGED <<dynamicVars, flags, vlogs, useOptionsAsFlags, exportedVars>>

ResetExported(t) ==
    /\ At(t, "resetExported") /\ Filling = {} /\ upgrader = None
    /\ exported' = [k \in ExportedKeys |-> None]
    /\ call' = [call EXCEPT ![t] = Idle]
    /\ lastSet' = [k \in Settings |-> IF k \in ExportedKeys THEN None ELSE lastSet[k]]
    /\ overlapped' = overlapped \cup {u \in Threads : call[u].key \in ExportedKeys}
    /\ UNCHANGED <<calls, upgrader, optionVars>>

SettingsCall(t) ==
    \/ \E key \in OptionNames :
          \/ \E text \in Texts : SetOption(t, key, text)
          \/ \E gettable, settable \in BOOLEAN :
                RegisterDynamicOption(t, key, gettable, settable)
    \/ SetUseOptionsAsFlags(t) \/ ResetOptions(t)
    \/ \E key \in ExportedKeys :
          DeleteExportedKey(t, key) \/ \E text \in Texts : SetExportedValue(t, key, text)

SettingsStep(t) ==
    \/ FindDynamic(t) \/ StoreOption(t) \/ SetFlag(t)
    \/ TryFill(t) \/ InsertEntry(t) \/ Fill(t) \/ UpgradeLock(t) \/ EraseEntry(t)
    \/ ResetExported(t)

(***************************************************************************)
(* A call that overlapped no other call for its key has taken effect,      *)
(* whatever calls for the key raced before it.  For a dynamic option: its  *)
(* setter was last called with that text.  For a static option:            *)
(* getOption() returns the text and a whitelisted flag has it.  For an     *)
(* exported value: the entry of exportedValues_ has it (which              *)
(* getExportedValue() returns unless there is a dynamic string of that     *)
(* name).  Such an entry stays in place while setExportedValue() is about  *)
(* to fill it, and is empty only then (the lookup, the exclusive lock and  *)
(* its downgrade; the upgrade lock of deleteExportedKey()).                *)
(***************************************************************************)
SettingsTakeEffect ==
    /\ \A key \in OptionNames : (lastSet[key] # None /\ Users(key) = {}) =>
          IF key \in dynamicOptions
          THEN key \in setters /\ given[key] = lastSet[key]
          ELSE /\ OptionTexts(key) = {lastSet[key]}
               /\ (key \in Whitelisted /\ lastSet[key] \notin Invalid) =>
                     flags[key] = lastSet[key] /\ vlogs
    /\ \A key \in ExportedKeys :
          /\ (lastSet[key] # None /\ Users(key) = {}) => exported[key] = lastSet[key]
          /\ exported[key] = Empty => \E t \in Filling : call[t].key = key
          /\ \A t \in Filling : call[t].key = key => exported[key] # None
=============================================================================
