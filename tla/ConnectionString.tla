-------------------------- MODULE ConnectionString --------------------------
(***************************************************************************)
(* The URL with which the server opens a Postgres database: how            *)
(* PostgresConfig.String (pkg/storage/db/new.go) writes it, and how        *)
(* net/url, with which the driver pgx reads it, takes it apart.  Text is a *)
(* sequence of letters; a word that needs no escape is one letter, and so  *)
(* are the two hexadecimal digits behind a percent sign.                   *)
(***************************************************************************)
EXTENDS Integers, Sequences, SequencesExt, FiniteSetsExt

CONSTANTS
    Letters,        \* the letters of users and passwords
    MaxPassword,    \* bound: letters of a password
    Hosts,          \* what --db-host may be: sequences of host names
    Ports           \* ports in decimal; "0" stands for none

VARIABLES
    config,     \* the PostgresConfig
    text,       \* the URL, once written
    read        \* what the driver makes of it

vars == <<config, text, read>>

\* The letters that QueryEscape writes as a percent sign and digits.
Hex == [l \in {"@", ":", "/", "%", "+"} |->
          CASE l = "@" -> "40" [] l = ":" -> "3A" [] l = "/" -> "2F"
            [] l = "%" -> "25" [] l = "+" -> "2B"]
Digits == {Hex[l] : l \in DOMAIN Hex}

Words(n) == UNION {[1..m -> Letters] : m \in 0..n}
Configs == [user : Words(1), password : Words(MaxPassword), host : Hosts, port : Ports]

-----------------------------------------------------------------------------
(* Writing *)

\* Mutant of QueryEscape: the text goes into the URL as it is.
QueryEscapeNothing(word) == word

\* url.QueryEscape: a space becomes a plus sign.
QueryEscape(word) ==
    FlattenSeq([i \in DOMAIN word |->
      IF word[i] = " " THEN <<"+">>
      ELSE IF word[i] \in DOMAIN Hex THEN <<"%", Hex[word[i]]>> ELSE <<word[i]>>])

\* Mutant of HostPart: the port comes behind the last host only.
HostPartOnce(host, port) ==
    FlattenSeq([i \in DOMAIN host |-> IF i = 1 THEN <<host[i]>> ELSE <<",", host[i]>>])
    \o (IF port = "0" THEN <<>> ELSE <<":", port>>)

\* The hosts, separated by commas, each with the port if there is one.
HostPart(host, port) ==
    FlattenSeq([i \in DOMAIN host |->
      (IF i = 1 THEN <<>> ELSE <<",">>) \o <<host[i]>> \o (IF port = "0" THEN <<>> ELSE <<":", port>>)])

\* PostgresConfig.String.
String(c) ==
    <<"postgres://">> \o QueryEscape(c.user) \o <<":">> \o QueryEscape(c.password)
      \o <<"@">> \o HostPart(c.host, c.port) \o <<"/", "dbname?sslmode=disable">>

-----------------------------------------------------------------------------
(* Reading *)

Places(l, word) == {i \in DOMAIN word : word[i] = l}
Before(word, i) == SubSeq(word, 1, i - 1)
After(word, i) == SubSeq(word, i + 1, Len(word))

\* The letters behind the first l, and those before it.
Cut(word, l) ==
    IF Places(l, word) = {} THEN [before |-> word, after |-> <<>>]
    ELSE LET i == Min(Places(l, word)) IN [before |-> Before(word, i), after |-> After(word, i)]

\* Every percent sign has its digits behind it.
Escaped(word) == \A i \in Places("%", word) : i < Len(word) /\ word[i + 1] \in Digits

\* The user information of a URL: a plus sign stands for itself.
Unescape(word) ==
    FlattenSeq([i \in DOMAIN word |->
      IF word[i] = "%" THEN <<CHOOSE l \in DOMAIN Hex : Hex[l] = word[i + 1]>>
      ELSE IF word[i] \in Digits THEN <<>> ELSE <<word[i]>>])

Unreadable == [user |-> <<>>, password |-> <<>>, hosts |-> <<>>]

\* The authority ends with the first slash, its user information with the last
\* at-sign in it.
Parse(url) ==
    LET authority == Cut(Tail(url), "/").before
        at == Places("@", authority)
        user == Cut(Before(authority, Max(at)), ":")
    IN IF at = {} \/ ~Escaped(user.before) \/ ~Escaped(user.after) THEN Unreadable
       ELSE [user |-> Unescape(user.before), password |-> Unescape(user.after),
             hosts |-> After(authority, Max(at))]

-----------------------------------------------------------------------------
Init == config \in Configs /\ text = <<>> /\ read = Unreadable

\* db.New hands the URL to sql.Open, and the driver reads it.
Open ==
    /\ text = <<>>
    /\ text' = String(config)
    /\ read' = Parse(text')
    /\ UNCHANGED config

Spec == Init /\ [][Open]_vars

-----------------------------------------------------------------------------
(* Properties *)

\* The driver logs in with the configured user and password, whatever
\* characters they have, as the comment on the escaping says ("This is to handle
\* special characters in the user and password") and the test ("Decoded password
\* should match original").  It does not hold: QueryEscape writes a space as a
\* plus sign, which stands for a space in a query only.
CredentialsSurvive ==
    text # <<>> => read.user = config.user /\ read.password = config.password

\* A user or a password without a space in it arrives as it is configured,
\* whatever other characters it has and whatever is around it; and the driver
\* finds every configured host, each with the configured port.
SettingsSurvive ==
    text # <<>> =>
      /\ \A field \in {"user", "password"} :
           Places(" ", config[field]) = {} => read[field] = config[field]
      /\ Cardinality(Places(",", read.hosts)) = Len(config.host) - 1
      /\ config.port # "0" =>
           \A i \in DOMAIN config.host :
             \E j \in 1 .. Len(read.hosts) - 2 :
               SubSeq(read.hosts, j, j + 2) = <<config.host[i], ":", config.port>>

\* The inductive invariant behind SettingsSurvive: the driver has read the URL
\* of this very configuration.
SettingsInv ==
    /\ config \in Configs
    /\ text # <<>> => read = Parse(String(config))

=============================================================================
