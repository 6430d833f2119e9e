------------------------------ MODULE Environ ------------------------------
(***************************************************************************)
(* The environment: setenv, putenv, unsetenv, clearenv and getenv of env/.  *)
(* A string "name=value" is an address with a name and a value.  The ones   *)
(* setenv allocates belong to the library, which remembers them in          *)
(* env_alloced to free them when they leave the environment; the ones given *)
(* to putenv, and those of an array that is there at the start, belong to   *)
(* the application.  A call that fails before it changed anything, or that  *)
(* frees what it has just allocated, stutters.                              *)
(***************************************************************************)
EXTENDS Naturals, Sequences, FiniteSets, LibcThreads

CONSTANTS
    Names,
    Values,
    Strings,     \* the addresses strings can have, used again after free
    StartArrays  \* what environ may hold when the program starts

ASSUME EnvAssumption ==
    /\ NULL \notin Names \cup Values \cup Strings
    /\ StartArrays \subseteq Seq(Strings)

VARIABLES
    text,        \* what is at an address: Dead, or a name and a value
    environ,     \* the strings of the array environ, up to the NULL
    env_array,   \* where environ points: nowhere, to oldenv, to the application's array
    env_alloced, \* the slots of __env_rm_add
    app,         \* the strings the application has and did not free (ghost)
    untracked    \* the strings no slot could be had for (ghost)

envVars == <<text, environ, env_array, env_alloced, app, untracked>>

Dead == [name |-> NULL, value |-> NULL]
Text == [name : Names, value : Values]
Live == {s \in Strings : text[s] # Dead}
Holds(seq) == {seq[i] : i \in DOMAIN seq}

EnvInit ==
    /\ environ \in StartArrays
    /\ app = Holds(environ)
    /\ text \in [Strings -> Text \cup {Dead}]
    /\ \A s \in Strings : s \in app <=> text[s] # Dead
    /\ env_array = IF environ = <<>> THEN "none" ELSE "app"
    /\ env_alloced = <<>>
    /\ untracked = {}

EnvTypeOK ==
    /\ text \in [Strings -> Text \cup {Dead}]
    /\ environ \in Seq(Strings)
    /\ env_array \in {"none", "lib", "app"}
    /\ env_alloced \in Seq(Strings \cup {NULL})
    /\ app \in SUBSET Strings
    /\ untracked \in SUBSET Strings

(* The place of the first string for a name, the one getenv and __putenv    *)
(* stop at.                                                                 *)
First(i, n) ==
    /\ i \in DOMAIN environ /\ text[environ[i]].name = n
    /\ \A j \in 1 .. i - 1 : text[environ[j]].name # n

IsSet(n) == \E i \in DOMAIN environ : text[environ[i]].name = n

getenv(n) == IF IsSet(n) THEN text[environ[CHOOSE i \in DOMAIN environ : First(i, n)]].value
                         ELSE NULL

-----------------------------------------------------------------------------
(* __env_rm_add(old, new) on the slots al: old's slot is emptied and new    *)
(* takes the first empty one, or a slot more if realloc can give it.  free  *)
(* gets old only if it had a slot.                                          *)
Vacated(al, gone) == [i \in DOMAIN al |-> IF al[i] \in gone THEN NULL ELSE al[i]]

FirstEmpty(al, i) == i \in DOMAIN al /\ al[i] = NULL /\ \A j \in 1 .. i - 1 : al[j] # NULL

Full(al) == \A i \in DOMAIN al : al[i] # NULL

Tracked(al, new, fits) ==
    IF Full(al) THEN IF fits THEN Append(al, new) ELSE al
    ELSE [al EXCEPT ![CHOOSE i \in DOMAIN al : FirstEmpty(al, i)] = new]

(* Mutant: whatever leaves the environment is freed.                        *)
FreedAny(txt, gone) == [s \in Strings |-> IF s \in gone THEN Dead ELSE txt[s]]

Freed(txt, gone) == [s \in Strings |-> IF s \in gone \cap Holds(env_alloced) THEN Dead ELSE txt[s]]

(* new is NULL for a string of the application.                             *)
env_rm_add(txt, gone, new) ==
    /\ text' = Freed(txt, gone)
    /\ LET al == Vacated(env_alloced, gone) IN
       \/ /\ new = NULL
          /\ env_alloced' = al
          /\ UNCHANGED untracked
       \/ /\ new # NULL
          /\ \E fits \in BOOLEAN :
                /\ env_alloced' = Tracked(al, new, fits)
                /\ untracked' = IF Full(al) /\ ~fits THEN untracked \cup {new} ELSE untracked

(* __putenv of s, whose text is t: the first string of that name makes      *)
(* place for it, ...                                                        *)
PutReplace(s, t, r) ==
    \E i \in DOMAIN environ :
        /\ First(i, t.name)
        /\ environ' = [environ EXCEPT ![i] = s]
        /\ env_rm_add([text EXCEPT ![s] = t], {environ[i]}, r)
        /\ UNCHANGED <<env_array, app>>

(* ... or the array grows.  realloc moves oldenv, or a copy of whatever     *)
(* environ points to takes the place of oldenv.                             *)
PutAppend(s, t, r) ==
    /\ ~IsSet(t.name)
    /\ environ' = Append(environ, s)
    /\ env_array' = "lib"
    /\ env_rm_add([text EXCEPT ![s] = t], {}, r)
    /\ UNCHANGED app

setenv(n, v, overwrite) ==
    /\ overwrite \/ ~IsSet(n)
    /\ \E s \in Strings \ Live :
          LET t == [name |-> n, value |-> v] IN
          PutReplace(s, t, s) \/ PutAppend(s, t, s)

putenv(s) == s \in app /\ (PutReplace(s, text[s], NULL) \/ PutAppend(s, text[s], NULL))

(* Mutant: only the first string of the name goes.                          *)
unsetenv_first(n) ==
    \E i \in DOMAIN environ :
        /\ First(i, n)
        /\ environ' = SubSeq(environ, 1, i - 1) \o SubSeq(environ, i + 1, Len(environ))
        /\ env_rm_add(text, {environ[i]}, NULL)
        /\ UNCHANGED <<env_array, app>>

(* The places P of an array, in their order.                                *)
InOrder(P) ==
    {at \in [1 .. Cardinality(P) -> P] :
        /\ \A i, j \in DOMAIN at : i < j => at[i] < at[j]
        /\ P = {at[i] : i \in DOMAIN at}}

(* The strings that stay close up; every other one goes through             *)
(* __env_rm_add.                                                            *)
unsetenv(n) ==
    /\ \E at \in InOrder({i \in DOMAIN environ : text[environ[i]].name # n}) :
          environ' = [i \in DOMAIN at |-> environ[at[i]]]
    /\ env_rm_add(text, {s \in Holds(environ) : text[s].name = n}, NULL)
    /\ UNCHANGED <<env_array, app>>

clearenv ==
    /\ environ' = <<>>
    /\ env_array' = "none"
    /\ env_rm_add(text, Holds(environ), NULL)
    /\ UNCHANGED app

(* The application makes a string for putenv, and frees one that is not in  *)
(* the environment any more.                                                *)
AppString(s, t) ==
    /\ s \notin Live
    /\ text' = [text EXCEPT ![s] = t]
    /\ app' = app \cup {s}
    /\ UNCHANGED <<environ, env_array, env_alloced, untracked>>

AppFree(s) ==
    /\ s \in app /\ s \notin Holds(environ)
    /\ text' = [text EXCEPT ![s] = Dead]
    /\ app' = app \ {s}
    /\ UNCHANGED <<environ, env_array, env_alloced, untracked>>

EnvNext ==
    \/ \E n \in Names, v \in Values, overwrite \in BOOLEAN : setenv(n, v, overwrite)
    \/ \E s \in Strings : putenv(s) \/ AppFree(s) \/ \E t \in Text : AppString(s, t)
    \/ \E n \in Names : unsetenv(n)
    \/ clearenv

EnvSpec == EnvInit /\ [][EnvNext]_envVars

-----------------------------------------------------------------------------
(* Nothing in the environment, and no slot of env_alloced, names a string   *)
(* that was freed, and no function of the library frees a string of the     *)
(* application, however setenv and putenv take turns on the same names and  *)
(* whichever addresses malloc hands out again.  Nor is a string leaked: one *)
(* that setenv allocated is still in the environment, or no slot could be   *)
(* had for it (__env_rm_add gives up silently).                             *)
EnvStringsExact ==
    /\ Holds(environ) \cup app \subseteq Live
    /\ Holds(env_alloced) \ {NULL} \subseteq Live \ app
    /\ Live \ app \subseteq Holds(environ) \cup untracked

Map == INSTANCE EnvMap WITH env <- [n \in Names |-> getenv(n)]

(* The environment implements the map of EnvMap, each function its own      *)
(* operation of it: getenv finds what was set last and nothing of a name    *)
(* that was unset, even if the application's array had the name twice;      *)
(* other names keep their values, and strings that the application makes or *)
(* frees, and calls that fail, change nothing.                              *)
EnvImplementsMap ==
    /\ Map!Spec
    /\ [][/\ \A n \in Names : unsetenv(n) => Map!Unset(n)
          /\ \A n \in Names, v \in Values : setenv(n, v, TRUE) => Map!Set(n, v)
          /\ \A s \in Strings : putenv(s) => Map!Set(text[s].name, text[s].value)
          /\ clearenv => Map!Clear]_envVars

=============================================================================
