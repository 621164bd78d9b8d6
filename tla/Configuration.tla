---------------------------- MODULE Configuration ----------------------------
(***************************************************************************)
(* bootstrap/configuration: loadServerConfiguration reads the environment  *)
(* once, collects every issue, and yields a configuration if there is none.*)
(*                                                                         *)
(* A variable is unset, or has a text: empty, a decimal number, a list (of *)
(* CORS origins, trimmed), or another one; Text("yes") stands for "1",     *)
(* "true" and "yes" in any case.  Secrets, and that they are erased, are   *)
(* left out.                                                               *)
(***************************************************************************)
EXTENDS Naturals, Sequences

CONSTANTS MaxPort,   \* the largest std::uint16_t
          MaxSize,   \* the largest std::size_t
          MaxParsed  \* the largest unsigned long long

ASSUME ConfigurationAssumption ==
    /\ {MaxPort, MaxSize, MaxParsed} \subseteq Nat
    /\ 8081 <= MaxPort /\ MaxPort <= MaxSize /\ MaxSize <= MaxParsed

Unset == [is |-> "unset"]
Text(t) == [is |-> "text", text |-> t]
Number(n) == [is |-> "number", value |-> n]
List(items) == [is |-> "list", items |-> items]

Blank == ""
AnyOrigin == "*"
Empty == Text(Blank)

\* The variables, without their prefix WAREHOUSE_.
RequiredKeys == {"DB_HOST", "DB_PORT", "DB_NAME", "DB_USER", "DB_PASSWORD"}
Optional == {"HTTP_PORT", "HTTP_WORKER_THREADS", "DB_POOL_SIZE"}
Admin == {"ADMIN_USERNAME", "ADMIN_PASSWORD"}
Keys == RequiredKeys \cup Optional \cup Admin
            \cup {"HTTP_BIND_ADDRESS", "CORS_ALLOWED_ORIGINS", "MIGRATE_PASSWORDS"}

\* What a variable can have: whether its text is read as a list, a number or a
\* word depends on the variable alone.
IsWord(v) == v = Unset \/ (v.is = "text" /\ v.text \in STRING /\ v = Text(v.text))
IsNumber(v) == v.is = "number" /\ v.value \in Nat /\ v = Number(v.value)
IsList(v) == v = Unset \/ (v.is = "list" /\ v.items \in Seq(STRING) /\ v = List(v.items))
IsEnvironment(env) ==
    /\ DOMAIN env = Keys
    /\ IsList(env["CORS_ALLOWED_ORIGINS"])
    /\ IsWord(env["MIGRATE_PASSWORDS"])
    /\ \A k \in Keys \ {"CORS_ALLOWED_ORIGINS", "MIGRATE_PASSWORDS"} : IsWord(env[k]) \/ IsNumber(env[k])

Largest(k) == IF k \in {"DB_PORT", "HTTP_PORT"} THEN MaxPort ELSE MaxSize
Default(k) == IF k = "HTTP_PORT" THEN 8081 ELSE 1

\* ConfigurationIssueCode, or "none".
Issue(k, code) == IF code = "none" THEN {} ELSE {[key |-> k, code |-> code]}

Required(v) ==
    CASE v = Unset -> "Missing"
      [] v = Empty -> "Empty"
      [] OTHER -> "none"

\* Defect: the number is converted before it is compared.
ParsePositiveWraps(v, maximum) ==
    CASE v.is # "number" -> "InvalidInteger"
      [] v.is = "number" /\ v.value % (maximum + 1) = 0 -> "OutOfRange"
      [] OTHER -> "none"

\* from_chars fails on what is not a number, or not one of its type.
ParsePositive(v, maximum) ==
    CASE v.is # "number" -> "InvalidInteger"
      [] v.is = "number" /\ v.value > MaxParsed -> "InvalidInteger"
      [] v.is = "number" /\ v.value <= MaxParsed /\ (v.value = 0 \/ v.value > maximum) -> "OutOfRange"
      [] OTHER -> "none"

OptionalPositive(v, maximum) ==
    CASE v = Unset -> "none"
      [] v = Empty -> "Empty"
      [] OTHER -> ParsePositive(v, maximum)

Value(env, k) == IF env[k].is = "number" THEN env[k].value ELSE Default(k)

\* The list without what is blank or repeated.
Origins(items) ==
    LET kept[n \in 0..Len(items)] ==
            IF n = 0 THEN << >>
            ELSE IF items[n] \in {Blank, AnyOrigin} \cup {kept[n - 1][i] : i \in DOMAIN kept[n - 1]}
            THEN kept[n - 1]
            ELSE Append(kept[n - 1], items[n])
    IN  kept[Len(items)]

CorsIssue(v) ==
    IF v.is = "list" /\ \E i \in DOMAIN v.items : v.items[i] = AnyOrigin THEN "Inconsistent" ELSE "none"

\* An empty text counts as given.
AdminIssue(env) ==
    IF (env["ADMIN_USERNAME"] = Unset) = (env["ADMIN_PASSWORD"] = Unset)
    THEN "none" ELSE "Inconsistent"

MigrateIssue(v) ==
    IF v = Unset \/ (v.is = "text" /\ v.text \in {"yes", "no"}) THEN "none" ELSE "Inconsistent"

Issues(env) ==
    (UNION {Issue(k, Required(env[k])) : k \in RequiredKeys})
    \cup (IF Required(env["DB_PORT"]) # "none" THEN {}
          ELSE Issue("DB_PORT", ParsePositive(env["DB_PORT"], MaxPort)))
    \cup Issue("HTTP_BIND_ADDRESS", IF env["HTTP_BIND_ADDRESS"] = Empty THEN "Empty" ELSE "none")
    \cup (UNION {Issue(k, OptionalPositive(env[k], Largest(k))) : k \in Optional})
    \cup Issue("CORS_ALLOWED_ORIGINS", CorsIssue(env["CORS_ALLOWED_ORIGINS"]))
    \cup Issue("ADMIN", AdminIssue(env))
    \cup Issue("MIGRATE_PASSWORDS", MigrateIssue(env["MIGRATE_PASSWORDS"]))

\* ServerConfiguration, as far as anything is computed.
Configured(env) ==
    [numbers |-> [k \in Optional \cup {"DB_PORT"} |-> Value(env, k)],
     origins |-> IF env["CORS_ALLOWED_ORIGINS"] = Unset THEN << >>
                 ELSE Origins(env["CORS_ALLOWED_ORIGINS"].items),
     admin |-> env["ADMIN_USERNAME"] # Unset,
     migrate |-> env["MIGRATE_PASSWORDS"] = Text("yes")]

LoadServerConfiguration(env) ==
    [issues |-> Issues(env),
     configuration |-> IF Issues(env) = {} THEN {Configured(env)} ELSE {}]
=============================================================================
