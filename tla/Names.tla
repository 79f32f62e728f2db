-------------------------------- MODULE Names --------------------------------
(***************************************************************************)
(* The texts by which things are named: the address of a node (Uri,        *)
(* boostHttpClient::parseUrl, fc::url, fc::ip::endpoint), the id of an     *)
(* object or a vote, a key or an address with its prefix and checksum.     *)
(*                                                                         *)
(* A text is a sequence of tokens: a natural number is a numeral, a        *)
(* negative one a delimiter or a word.  text is a text that grows token by *)
(* token, whatever the tokens, and every reader reads it.  A reader that   *)
(* throws yields the empty set, one that succeeds a set of one value.      *)
(***************************************************************************)
EXTENDS Integers, Sequences, SequencesExt, Bitwise

CONSTANTS Beginnings,   \* the texts to start from, each with the kind of names it may become
          Alphabet,     \* the tokens of each kind
          MaxTokens,    \* bound on the tokens added
          InstanceBits, \* 48 bits of the instance of an object id, scaled
          VoteBits      \* 24 bits of the instance of a vote id, scaled

ASSUME NamesAssumption == InstanceBits \in Nat \ {0} /\ VoteBits \in Nat \ {0} /\ MaxTokens \in Nat

VARIABLE text   \* [kind, tokens, added]

Colon == -1
Slash == -2
At == -3
Question == -4
Hash == -5
Open == -6
Close == -7
Dot == -8
Word == -9
Http == -10
Https == -11
HTTPS == -12
Ip == -13
Prefix == -14

Numeral(t) == t >= 0
Letters(t) == t \in {Word, Http, Https, HTTPS}

\* the first token of S in s, or the place after the end
Find(s, S) ==
    CHOOSE k \in 1..Len(s) + 1 :
        /\ k = Len(s) + 1 \/ s[k] \in S
        /\ \A j \in 1..k - 1 : s[j] \notin S
Has(s, c) == \E i \in DOMAIN s : s[i] = c
Before(s, S) == SubSeq(s, 1, Find(s, S) - 1)
After(s, S) == SubSeq(s, Find(s, S) + 1, Len(s))
From(s, S) == SubSeq(s, Find(s, S), Len(s))
StartsWith(s, prefix) == IsPrefix(prefix, s)
SchemeMark == <<Colon, Slash, Slash>>

The(result) == CHOOSE r \in result : TRUE

-----------------------------------------------------------------------------
(***************************************************************************)
(* Uri.                                                                    *)
(***************************************************************************)
toLower(s) == [i \in DOMAIN s |-> IF s[i] = HTTPS THEN Https ELSE s[i]]

\* a host, in brackets or without a bracket and a colon, and digits after a colon if there is one
host_port(s) ==
    LET host == IF s # << >> /\ s[1] = Open THEN Before(s, {Close}) \o (IF Has(s, Close) THEN <<Close>> ELSE << >>)
                ELSE Before(s, {Colon})
        rest == SubSeq(s, Len(host) + 1, Len(s))
    IN  IF /\ (host # << >> /\ host[1] = Open) => Last(host) = Close
           /\ (host # << >> /\ host[1] # Open) => ~Has(host, Open)
           /\ \/ rest = << >>
              \/ rest[1] = Colon /\ \A i \in 2..Len(rest) : Numeral(rest[i])
        THEN {[host |-> host, port |-> IF Len(rest) > 1 THEN rest[2] % 65536 ELSE 0]}
        ELSE {}

\* the regular expression prefers user information, as far as the first @, to none
Login(user, password, hp) ==
    {[username |-> user, password |-> password, host |-> h.host, port |-> h.port] : h \in hp}
authority_of(s) ==
    IF Has(s, At) /\ host_port(After(s, {At})) # {}
    THEN LET info == Before(s, {At})
         IN  Login(Before(info, {Colon}), After(info, {Colon}), host_port(After(s, {At})))
    ELSE Login(<< >>, << >>, host_port(s))

NoLogin == [username |-> << >>, password |-> << >>, host |-> << >>, port |-> 0]

Cleared == [valid |-> FALSE, secure |-> FALSE, scheme |-> << >>, login |-> NoLogin,
            hasAuthority |-> FALSE, path |-> << >>, query |-> << >>, fragment |-> << >>]

WithAuthority(uri, s) ==
    {[uri EXCEPT !.hasAuthority = TRUE, !.login = l, !.path = From(s, {Slash})] : l \in authority_of(Before(s, {Slash}))}

\* scheme, what is before ? and #, the query up to #, the fragment
Parts(s, hasScheme) ==
    LET scheme == toLower(Before(s, {Colon}))
        rest == After(s, {Colon})
        both == Before(rest, {Question, Hash})
        uri == [Cleared EXCEPT
                   !.valid = TRUE,
                   !.scheme = IF hasScheme THEN scheme ELSE << >>,
                   !.secure = hasScheme /\ scheme = <<Https>>,
                   !.query = After(Before(rest, {Hash}), {Question}),
                   !.fragment = After(rest, {Hash})]
    IN  IF \/ scheme = << >> \/ ~Letters(scheme[1])
           \/ \E i \in DOMAIN scheme : ~Letters(scheme[i]) /\ ~Numeral(scheme[i]) /\ scheme[i] # Dot
           \/ Find(s, {Colon}) > Len(s)
        THEN {}
        ELSE IF StartsWith(both, <<Slash, Slash>>) THEN WithAuthority(uri, SubSeq(both, 3, Len(both)))
        ELSE {[uri EXCEPT !.path = both]}

\* a text without a scheme is given one that is not kept
doParse(s) ==
    IF s = << >> THEN {}
    ELSE IF \E i \in 1..Len(s) - 2 : SubSeq(s, i, i + 2) = SchemeMark THEN Parts(s, TRUE)
    ELSE Parts(<<Word>> \o SchemeMark \o s, FALSE)
parse(s) == IF doParse(s) = {} THEN Cleared ELSE The(doParse(s))

\* _authority and _pathEtc, put together when a text is parsed
authority(uri) ==
    LET l == uri.login
    IN  (IF l.username = << >> /\ l.password = << >> THEN << >>
         ELSE l.username \o (IF l.password = << >> THEN << >> ELSE <<Colon>> \o l.password) \o <<At>>)
        \o l.host \o (IF l.port = 0 THEN << >> ELSE <<Colon, l.port>>)
pathEtc(uri) ==
    uri.path \o (IF uri.query = << >> THEN << >> ELSE <<Question>> \o uri.query)
             \o (IF uri.fragment = << >> THEN << >> ELSE <<Hash>> \o uri.fragment)
hostName(uri) ==
    IF uri.login.host # << >> /\ uri.login.host[1] = Open
    THEN SubSeq(uri.login.host, 2, Len(uri.login.host) - 1)
    ELSE uri.login.host

toString(uri) ==
    LET l == uri.login
        login == CASE l.password # << >> -> l.username \o <<Colon>> \o l.password \o <<At>>
                   [] l.password = << >> /\ l.username # << >> -> l.username \o <<At>>
                   [] OTHER -> << >>
    IN  uri.scheme
        \o (IF uri.hasAuthority
            THEN SchemeMark \o login \o l.host \o (IF l.port = 0 THEN << >> ELSE <<Colon, l.port>>)
            ELSE <<Colon>>)
        \o uri.path
        \o (IF uri.query = << >> THEN << >> ELSE <<Question>> \o uri.query)
        \o (IF uri.fragment = << >> THEN << >> ELSE <<Hash>> \o uri.fragment)

-----------------------------------------------------------------------------
(***************************************************************************)
(* The other readers of addresses.                                         *)
(***************************************************************************)
\* boostHttpClient: the port is a text, 80 for https too; the path goes to the end
parseUrl(s) ==
    IF ~(StartsWith(s, <<Http>> \o SchemeMark) \/ StartsWith(s, <<Https>> \o SchemeMark)) THEN {}
    ELSE LET rest == SubSeq(s, 5, Len(s))
             server == Before(rest, {Slash})
         IN  {[path |-> IF Has(rest, Slash) THEN From(rest, {Slash}) ELSE <<Slash>>,
               server |-> Before(server, {Colon}),
               port |-> IF Has(server, Colon) THEN After(server, {Colon}) ELSE <<80>>]}

\* fc::url reads line after line, each to its own delimiter.  An @ is looked for in the whole
\* text; an optional is a set.
url_login(proto, rest, hasAt) ==
    LET info == Before(rest, {At})
        host == Before(IF hasAt THEN After(rest, {At}) ELSE rest, {Slash})
        path == Before(After(IF hasAt THEN After(rest, {At}) ELSE rest, {Slash}), {Question})
        number == After(host, {Colon})
    IN  IF Has(host, Colon) /\ ~(Len(number) = 1 /\ Numeral(number[1])) THEN {}
        ELSE {[proto |-> proto,
               user |-> IF hasAt THEN {Before(info, {Colon})} ELSE {},
               pass |-> IF hasAt /\ Has(info, Colon) THEN {Before(After(info, {Colon}), {Colon})} ELSE {},
               host |-> Before(host, {Colon}),
               port |-> IF Has(host, Colon) THEN {number[1] % 65536} ELSE {},
               path |-> <<Slash>> \o path]}
url(s) == url_login(Before(s, {Colon}), After(After(After(s, {Colon}), {Slash}), {Slash}), Has(s, At))

url_string(u) ==
    u.proto \o SchemeMark
    \o (IF u.user = {} THEN << >>
        ELSE The(u.user) \o (IF u.pass = {} THEN << >> ELSE <<Colon>> \o The(u.pass)) \o <<At>>)
    \o u.host \o (IF u.port = {} THEN << >> ELSE <<Colon, The(u.port)>>) \o u.path

\* without a colon the whole text is taken for the address, and for the port again
endpoint(s) ==
    LET address == Before(s, {Colon})
        port == IF Has(s, Colon) THEN After(s, {Colon}) ELSE s
    IN  IF address = <<Ip>> /\ Len(port) = 1 /\ Numeral(port[1]) /\ port[1] < 65536
        THEN {[address |-> Ip, port |-> port[1]]} ELSE {}
endpoint_string(e) == <<e.address, Colon, e.port>>

-----------------------------------------------------------------------------
(***************************************************************************)
(* Ids.  The number of an object is space, type and instance side by side. *)
(***************************************************************************)
MAX_INSTANCE == 2 ^ InstanceBits - 1

object_id_type(s, t, i) ==
    IF i > MAX_INSTANCE THEN {} ELSE {(s * 256 + t) * 2 ^ InstanceBits + i}
space(n) == n \div 2 ^ (InstanceBits + 8)
type(n) == (n \div 2 ^ InstanceBits) % 256
instance(n) == n % 2 ^ InstanceBits
id_string(n) == <<space(n), Dot, type(n), Dot, instance(n)>>

\* three numerals with dots between them; fc::to_uint64 throws at anything else
Dotted(s) == Len(s) = 5 /\ s[2] = Dot /\ s[4] = Dot /\ Numeral(s[1]) /\ Numeral(s[3]) /\ Numeral(s[5])

id_from_variant(s) ==
    IF Dotted(s) /\ s[5] <= MAX_INSTANCE /\ s[1] <= 255 /\ s[3] <= 255
    THEN object_id_type(s[1], s[3], s[5]) ELSE {}

\* the id of a known type keeps the instance only, and does not look at its size
typed_from_variant(s, sp, ty) == IF Dotted(s) /\ s[1] = sp /\ s[3] = ty THEN {s[5]} ELSE {}
typed_string(sp, ty, i) == <<sp, Dot, ty, Dot, i>>

\* vote_id_type: std::stoul reads a numeral and ignores what follows it; the type in the low eight bits; what does not fit is cut off or runs into the other
vote_id_type(ty, i) == [type |-> ty % 256, instance |-> (i | (ty \div 256)) % 2 ^ VoteBits]
vote_from_string(s) ==
    IF Has(s, Colon) /\ s[1] # Colon /\ Numeral(s[1]) /\ After(s, {Colon}) # << >> /\ Numeral(After(s, {Colon})[1])
    THEN {vote_id_type(s[1], After(s, {Colon})[1])} ELSE {}
vote_string(v) == <<v.type, Colon, v.instance>>

-----------------------------------------------------------------------------
(***************************************************************************)
(* Keys and addresses: a prefix, then in base58 the bytes and a checksum.  *)
(* The bytes are two here and the checksum one.                            *)
(***************************************************************************)
hash(bytes) == (bytes[1] + 2 * bytes[2] + 1) % 4

binary_key(s) == SubSeq(s, 2, Len(s))
key_from_string(s) ==
    IF /\ Len(s) > 1 /\ s[1] = Prefix
       /\ \A i \in 2..Len(s) : Numeral(s[i])
       /\ Len(binary_key(s)) >= 3
       /\ hash(binary_key(s)) = binary_key(s)[3]
    THEN {SubSeq(binary_key(s), 1, 2)} ELSE {}
key_string(key) == <<Prefix>> \o key \o <<hash(key)>>

address_is_valid(s) ==
    /\ Len(s) > 1 /\ s[1] = Prefix
    /\ \A i \in 2..Len(s) : Numeral(s[i])
    /\ Len(s) = 4
    /\ hash(binary_key(s)) = s[4]
address_from_string(s) == IF address_is_valid(s) THEN {SubSeq(s, 2, 3)} ELSE {}
address_string(a) == <<Prefix>> \o a \o <<hash(a)>>

-----------------------------------------------------------------------------
NamesInit == text = [kind |-> "none", tokens |-> << >>, added |-> 0]

\* a numeral is one token: none follows another
NamesNext ==
    \/ text.kind = "none" /\ \E b \in Beginnings : text' = [kind |-> b.kind, tokens |-> b.tokens, added |-> 0]
    \/ /\ text.kind # "none"
       /\ text.added < MaxTokens
       /\ \E t \in Alphabet[text.kind] :
              /\ text.kind # "key" /\ Numeral(t) => ~(text.tokens # << >> /\ Numeral(Last(text.tokens)))
              /\ text' = [text EXCEPT !.tokens = Append(@, t), !.added = @ + 1]

\* an address that every reader understands: nothing but a host, a port and a path
Plain(uri) ==
    /\ uri.valid /\ uri.hasAuthority /\ uri.scheme \in {<<Http>>, <<Https>>}
    /\ uri.login.host # << >> /\ uri.query = << >> /\ uri.fragment = << >>
    /\ \A c \in {At, Question, Hash, Open, Close} : ~Has(text.tokens, c)

\* What is written of an address is read as the same address, and is the scheme with _authority
\* and _pathEtc.  The exceptions are a text without a scheme and a host with an @ in it.
UriStable ==
    LET uri == parse(text.tokens)
    IN  uri.valid /\ uri.scheme # << >> =>
            /\ ~Has(uri.login.host, At) => parse(toString(uri)) = uri
            /\ toString(uri) = uri.scheme \o (IF uri.hasAuthority THEN SchemeMark ELSE <<Colon>>)
                                          \o authority(uri) \o pathEtc(uri)
            /\ ~Has(hostName(uri), Close) \/ ~Has(uri.login.host, Open)

\* The three readers agree on the host, the port and the path of a plain address.
ReadersAgree ==
    LET uri == parse(text.tokens)
    IN  Plain(uri) =>
            /\ \A p \in parseUrl(text.tokens) :
                   /\ p.server = uri.login.host
                   /\ p.path = IF uri.path = << >> THEN <<Slash>> ELSE uri.path
                   /\ uri.login.port \in 1..65535 => p.port \in {<<n>> : n \in {uri.login.port, uri.login.port + 65536}}
            /\ \A u \in url(text.tokens) :
                   /\ u.proto = uri.scheme \/ u.proto = <<HTTPS>>
                   /\ u.host = uri.login.host
                   /\ u.port = IF Has(Before(SubSeq(text.tokens, 5, Len(text.tokens)), {Slash}), Colon)
                               THEN {uri.login.port} ELSE {}
                   /\ u.path = IF uri.path = << >> THEN <<Slash>> ELSE uri.path

IdsStable ==
    /\ \A n \in id_from_variant(text.tokens) : id_string(n) = text.tokens
    /\ \A i \in typed_from_variant(text.tokens, 1, 2) :
           /\ typed_string(1, 2, i) = text.tokens
           /\ id_from_variant(text.tokens) = object_id_type(1, 2, i)
    /\ \A v \in vote_from_string(text.tokens) :
           /\ vote_from_string(vote_string(v)) = {v}
           /\ (Len(text.tokens) = 3 /\ text.tokens[1] < 256 /\ text.tokens[3] < 2 ^ VoteBits)
                  => vote_string(v) = text.tokens

KeysStable ==
    /\ \A k \in key_from_string(text.tokens) :
           StartsWith(text.tokens, key_string(k)) /\ key_from_string(key_string(k)) = {k}
    /\ \A a \in address_from_string(text.tokens) : address_string(a) = text.tokens

\* Names are read as they were written: an address of a node, a url or an endpoint written out
\* and read again is the same, and the three readers of addresses see the same host, port and
\* path in a plain one; an id of an object, a vote or a key is accepted only in the text it
\* would be written as, with its space, type and instance, its prefix and its checksum.
NamesExact ==
    /\ UriStable
    /\ ReadersAgree
    /\ \A u \in url(text.tokens) : url(url_string(u)) = {u}
    /\ \A e \in endpoint(text.tokens) : endpoint_string(e) = text.tokens
    /\ IdsStable
    /\ KeysStable

=============================================================================
