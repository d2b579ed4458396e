----------------------------- MODULE EdgeProofs -----------------------------
(***************************************************************************)
(* What holds of the stateless rules for any lists, headers, texts and     *)
(* amounts, and for addresses of any width.                                *)
(***************************************************************************)
EXTENDS EdgeCases, PowerProofs

(* Everything that may be under consideration, and nothing else ever is.   *)
Inputs ==
  {Waiting} \union BasicCases \union IpCases \union ContextCases \union HeaderCases
    \union ErrorCases \union TtlCases \union EnvCases \union LogCases \union ConfigCases
    \union FeatureCases \union ResponseCases

LEMMA Considered == Spec => [](case \in Inputs)
<1>1. Init => case \in Inputs
  BY DEF Init, Inputs
<1>2. case \in Inputs /\ [Next]_case => (case \in Inputs)'
  BY DEF Next, Consider, Settle, Inputs
<1> QED BY <1>1, <1>2, PTL DEF Spec

(* What the assumption says of numbers; elements and ends of sequences.     *)
LEMMA Amount ==
  /\ \A n \in {0} \union Statuses : n \in Nat
  /\ \A n \in Amounts : n \in Nat
  /\ MaxListed \in Nat
BY CasesAssumption

LEMMA Element == ASSUME NEW S, NEW s \in Seq(S), NEW i \in DOMAIN s PROVE s[i] \in S
OBVIOUS

LEMMA Appended ==
  ASSUME NEW S, NEW s \in Seq(S), NEW e
  PROVE  Len(s) \in Nat /\ Append(s, e)[Len(s) + 1] = e /\ Len(Append(s, e)) = Len(s) + 1
OBVIOUS

(* An input's kind tells the set it is from.                               *)
LEMMA Kinds ==
  ASSUME case \in Inputs
  PROVE  /\ case.kind = "basic" => case \in BasicCases
         /\ case.kind = "ip" => case \in IpCases
         /\ case.kind = "context" => case \in ContextCases
         /\ case.kind = "headers" => case \in HeaderCases
         /\ case.kind = "error" => case \in ErrorCases
         /\ case.kind = "ttl" => case \in TtlCases
         /\ case.kind \in {"number", "boolean", "enum"} => case \in EnvCases
         /\ case.kind = "log" => case \in LogCases
         /\ case.kind = "config" => case \in ConfigCases
         /\ case.kind = "features" => case \in FeatureCases
         /\ case.kind = "response" => case \in ResponseCases
<1>1. Waiting.kind = "none"
  BY DEF Waiting
<1>2. \A c \in BasicCases : c.kind = "basic"
  BY DEF BasicCases
<1>3. \A c \in IpCases : c.kind = "ip"
  BY DEF IpCases
<1>4. \A c \in ContextCases : c.kind = "context"
  BY DEF ContextCases
<1>5. \A c \in HeaderCases : c.kind = "headers"
  BY DEF HeaderCases
<1>6. \A c \in ErrorCases : c.kind = "error"
  BY DEF ErrorCases
<1>7. \A c \in TtlCases : c.kind = "ttl"
  BY DEF TtlCases
<1>8. \A c \in EnvCases : c.kind \in {"number", "boolean", "enum"}
  BY DEF EnvCases
<1>9. \A c \in LogCases : c.kind = "log"
  BY DEF LogCases
<1>10. \A c \in ConfigCases : c.kind = "config"
  BY DEF ConfigCases
<1>11. \A c \in FeatureCases : c.kind = "features"
  BY DEF FeatureCases
<1>12. \A c \in ResponseCases : c.kind = "response"
  BY DEF ResponseCases
<1> QED BY <1>1, <1>2, <1>3, <1>4, <1>5, <1>6, <1>7, <1>8, <1>9, <1>10, <1>11, <1>12 DEF Inputs

-----------------------------------------------------------------------------
(* IP lists: a quotient by a power of two is the leading bits.             *)

LEMMA Quotient ==
  ASSUME NEW d \in Nat \ {0}, NEW q \in Int, NEW x \in Int, d * q <= x, x < d * q + d
  PROVE  x \div d = q
<1> DEFINE p == x \div d
<1>1. p \in Int /\ d * p <= x /\ x < d * p + d
  OBVIOUS
<1> HIDE DEF p
<1>2. p < q => d * p + d <= d * q
  BY <1>1
<1>3. q < p => d * q + d <= d * p
  BY <1>1
<1>4. p = q
  BY <1>1, <1>2, <1>3
<1> QED BY <1>4 DEF p

(* One more bit doubles the quotient and adds the bit.                     *)
LEMMA OneMoreBit ==
  ASSUME NEW x \in Nat, NEW d \in Nat \ {0}
  PROVE  /\ x \div d \in Nat /\ x \div (2 * d) \in Nat
         /\ (x \div d) % 2 \in 0..1
         /\ x \div d = 2 * (x \div (2 * d)) + ((x \div d) % 2)
<1> DEFINE a == x \div d
           b == a \div 2
           r == a % 2
<1>1. a \in Int /\ d * a <= x /\ x < d * a + d
  OBVIOUS
<1> HIDE DEF a
<1>2. a >= 0
  <2>1. a < 0 => d * a + d <= 0
    BY <1>1
  <2> QED BY <1>1, <2>1
<1>3. b \in Nat /\ r \in 0..1 /\ a = 2 * b + r
  BY <1>1, <1>2
<1> HIDE DEF b, r
<1>4. d * a = (2 * d) * b + d * r /\ d * r \in 0..d /\ d * r + d <= 2 * d
  BY <1>1, <1>3
<1>5. 2 * d \in Nat \ {0} /\ (2 * d) * b <= x /\ x < (2 * d) * b + 2 * d
  BY <1>1, <1>3, <1>4
<1>6. x \div (2 * d) = b
  BY <1>3, <1>5, Quotient
<1>7. a \in Nat
  BY <1>1, <1>2
<1> QED BY <1>3, <1>6, <1>7 DEF a, b, r

(* Two numbers of w bits have a common quotient by 2^(w - k) exactly when  *)
(* their k leading bits agree: by induction on k.                          *)
LEMMA LeadingBits ==
  ASSUME NEW w \in Nat, NEW x \in 0..(2^w - 1), NEW y \in 0..(2^w - 1), NEW k \in 0..w
  PROVE  x \div 2^(w - k) = y \div 2^(w - k)
           <=> \A i \in 1..k : (x \div 2^(w - i)) % 2 = (y \div 2^(w - i)) % 2
<1> DEFINE Same(n)  == x \div 2^(w - n) = y \div 2^(w - n)
           Equal(i) == (x \div 2^(w - i)) % 2 = (y \div 2^(w - i)) % 2
           Agree(n) == Same(n) <=> \A i \in 1..n : Equal(i)
           T == {n \in 0..w : ~Agree(n)}
<1>1. x \in Nat /\ y \in Nat /\ 2^w \in Nat /\ 1 <= 2^w /\ x < 2^w /\ y < 2^w
  BY PowerGrows
<1>2. Agree(0)
  <2>1. w - 0 = w
    OBVIOUS
  <2>2. x \div 2^w = 0 /\ y \div 2^w = 0
    <3> DEFINE p == 2^w
    <3>1. p \in Nat \ {0} /\ p * 0 <= x /\ x < p * 0 + p /\ p * 0 <= y /\ y < p * 0 + p
      BY <1>1
    <3> HIDE DEF p
    <3>2. x \div p = 0 /\ y \div p = 0
      BY <1>1, <3>1, Quotient
    <3> QED BY <3>2 DEF p
  <2>3. \A i \in 1..0 : Equal(i)
    OBVIOUS
  <2>4. Same(0)
    BY <2>1, <2>2
  <2> QED BY <2>3, <2>4
<1>3. ASSUME NEW n \in 0..(w - 1), Agree(n) PROVE Agree(n + 1)
  <2> DEFINE d == 2^(w - (n + 1))
  <2>1. w - (n + 1) \in Nat /\ w - (n + 1) + 1 = w - n
    OBVIOUS
  <2>2. d \in Nat \ {0} /\ 2^(w - n) = 2 * d
    BY <2>1, PowerGrows, PowerStep
  <2> HIDE DEF d
  <2>3. /\ x \div d = 2 * (x \div (2 * d)) + ((x \div d) % 2)
        /\ y \div d = 2 * (y \div (2 * d)) + ((y \div d) % 2)
        /\ x \div (2 * d) \in Nat /\ y \div (2 * d) \in Nat
        /\ (x \div d) % 2 \in 0..1 /\ (y \div d) % 2 \in 0..1
    BY <1>1, <2>2, OneMoreBit
  <2>4. x \div d = y \div d
          <=> x \div (2 * d) = y \div (2 * d) /\ (x \div d) % 2 = (y \div d) % 2
    <3>1. ASSUME NEW p \in Nat, NEW q \in Nat, NEW r \in 0..1, NEW s \in 0..1
          PROVE  2 * p + r = 2 * q + s <=> p = q /\ r = s
      OBVIOUS
    <3>2. 2 * (x \div (2 * d)) + ((x \div d) % 2) = 2 * (y \div (2 * d)) + ((y \div d) % 2)
            <=> x \div (2 * d) = y \div (2 * d) /\ (x \div d) % 2 = (y \div d) % 2
      BY <2>3, <3>1
    <3> QED BY <2>3, <3>2
  <2>5. Same(n + 1) <=> Same(n) /\ Equal(n + 1)
    BY <2>2, <2>4 DEF d
  <2>6. 1..(n + 1) = 1..n \union {n + 1}
    OBVIOUS
  <2> HIDE DEF Same, Equal
  <2> QED BY <1>3, <2>5, <2>6
<1> HIDE DEF Agree
<1>4. T = {}
  <2>1. SUFFICES ASSUME T # {} PROVE FALSE
    OBVIOUS
  <2>2. T \in SUBSET Nat
    OBVIOUS
  <2> HIDE DEF T
  <2>3. PICK m \in T : \A n \in T : m <= n
    BY <2>1, <2>2, Least
  <2>4. m \in 0..w /\ ~Agree(m) /\ m # 0
    BY <1>2 DEF T
  <2>5. m - 1 \in 0..(w - 1) /\ m - 1 + 1 = m /\ ~(m <= m - 1)
    BY <2>4
  <2>6. Agree(m - 1)
    BY <2>3, <2>5 DEF T
  <2>7. Agree(m)
    BY <1>3, <2>5, <2>6
  <2> QED BY <2>4, <2>7
<1>5. Agree(k)
  BY <1>4
<1> QED BY <1>5 DEF Agree

(* BlockList and the leading bits agree on every entry the boot accepts.   *)
LEMMA CoversBits ==
  ASSUME NEW e \in Entries, e.value < 2^Width(e.family), ValidEntry(e),
         NEW ip, ip.value \in 0..(2^Width(ip.family) - 1)
  PROVE  Covers(e, ip)
           <=> /\ e.family = ip.family
               /\ \A i \in 1..(IF e.slash = "none" THEN Width(e.family) ELSE PrefixLength(e)) :
                    Bit(e.family, e.value, i) = Bit(e.family, ip.value, i)
<1> SUFFICES ASSUME e.family = ip.family
             PROVE  Covers(e, ip)
                      <=> \A i \in 1..(IF e.slash = "none" THEN Width(e.family) ELSE PrefixLength(e)) :
                            Bit(e.family, e.value, i) = Bit(e.family, ip.value, i)
  BY DEF Covers
<1> DEFINE w == Width(e.family)
           k == IF e.slash = "none" THEN w ELSE PrefixLength(e)
<1>1. w \in Nat
  BY WidthsAssumption DEF Width
<1>2. k \in 0..w
  BY <1>1 DEF ValidEntry
<1>3. e.value \in Nat /\ 2^w \in Nat /\ e.value \in 0..(2^w - 1) /\ ip.value \in 0..(2^w - 1)
  BY <1>1, PowerGrows DEF Entries
<1>4. e.value \div 2^(w - k) = ip.value \div 2^(w - k)
        <=> \A i \in 1..k : (e.value \div 2^(w - i)) % 2 = (ip.value \div 2^(w - i)) % 2
  BY <1>1, <1>2, <1>3, LeadingBits
<1>5. Covers(e, ip) <=> e.value \div 2^(w - k) = ip.value \div 2^(w - k)
  <2>1. CASE e.slash = "none"
    <3>1. w - w = 0 /\ 2^0 = 1
      BY <1>1
    <3>2. \A v \in Nat : v \div 1 = v
      OBVIOUS
    <3>3. e.value \in Nat /\ ip.value \in Nat
      BY <1>3
    <3>4. k = w /\ 2^(w - k) = 1
      BY <2>1, <3>1
    <3>5. e.value \div 2^(w - k) = e.value /\ ip.value \div 2^(w - k) = ip.value
      BY <3>2, <3>3, <3>4
    <3> QED BY <2>1, <3>5 DEF Covers
  <2>2. CASE e.slash # "none"
    BY <2>2 DEF Covers
  <2> QED BY <2>1, <2>2
<1> QED BY <1>4, <1>5 DEF Bit

(* The lists mean what they say for addresses of any width, and any lists. *)
THEOREM FilterForAll == Spec => []FilterMatchesLists
<1>1. ASSUME case \in Inputs PROVE FilterMatchesLists
  <2> SUFFICES ASSUME case \in IpCases, Bootable(case.allow \union case.deny)
               PROVE  LET ip == IF case.address.family = "mapped"
                                THEN [family |-> "v4", value |-> case.address.value] ELSE case.address
                      IN  Blocked(case.allow, case.deny, case.address)
                            <=> IF Listed(case.deny, ip) THEN TRUE
                                ELSE case.allow # {} /\ ~Listed(case.allow, ip)
    BY <1>1, Kinds DEF FilterMatchesLists
  <2> DEFINE ip == normalizeIp(case.address)
  <2>1. case.allow \in IpLists /\ case.deny \in IpLists /\ case.address \in Addresses
    BY DEF IpCases
  <2>2. ip = IF case.address.family = "mapped"
             THEN [family |-> "v4", value |-> case.address.value] ELSE case.address
    BY <2>1 DEF normalizeIp, Addresses
  <2>3. ip.value \in 0..(2^Width(ip.family) - 1)
    BY <2>1, <2>2 DEF Addresses, Width
  <2> HIDE DEF ip
  <2>4. ASSUME NEW list \in IpLists, Bootable(list) PROVE Check(list, ip) <=> Listed(list, ip)
    <3>1. \A e \in list : e \in Entries /\ e.value < 2^Width(e.family) /\ ValidEntry(e)
      BY <2>4, CasesAssumption DEF Bootable
    <3> QED BY <2>3, <3>1, CoversBits DEF Check, Listed
  <2>5. Bootable(case.allow) /\ Bootable(case.deny)
    BY DEF Bootable
  <2>6. /\ Check(case.allow, ip) <=> Listed(case.allow, ip)
        /\ Check(case.deny, ip) <=> Listed(case.deny, ip)
    BY <2>1, <2>4, <2>5
  <2>7. Blocked(case.allow, case.deny, case.address)
          <=> Check(case.deny, ip) \/ (case.allow # {} /\ ~Check(case.allow, ip))
    BY DEF Blocked, ip
  <2> QED BY <2>2, <2>6, <2>7
<1> QED BY <1>1, Considered, PTL

-----------------------------------------------------------------------------
(* Two texts with a colon are equal when their names and passwords are.    *)
LEMMA HeadAndTail ==
  ASSUME NEW s \in Split, NEW t \in Split, Head(s) = Head(t), Tail(s) = Tail(t)
  PROVE  s = t
<1>1. s \in Seq(STRING) /\ t \in Seq(STRING) /\ Len(s) > 0 /\ Len(t) > 0
  BY DEF Split
<1>2. Len(Tail(s)) = Len(s) - 1 /\ Len(Tail(t)) = Len(t) - 1 /\ Len(s) \in Nat /\ Len(t) \in Nat
  BY <1>1
<1>3. Len(s) = Len(t)
  BY <1>2
<1>4. ASSUME NEW i \in 1..Len(s) PROVE s[i] = t[i]
  <2>1. CASE i = 1
    BY <1>1, <2>1
  <2>2. CASE i # 1
    <3>1. i - 1 \in 1..(Len(s) - 1) /\ i - 1 + 1 = i
      BY <1>2, <2>2
    <3>2. Tail(s)[i - 1] = s[i] /\ Tail(t)[i - 1] = t[i]
      BY <1>1, <1>3, <3>1
    <3> QED BY <3>2
  <2> QED BY <2>1, <2>2
<1> QED BY <1>1, <1>3, <1>4

(* The Basic guard accepts exactly the list, for any list and any header.  *)
THEOREM BasicForAll == Spec => []BasicAcceptsExactlyTheList
<1>1. ASSUME case \in Inputs PROVE BasicAcceptsExactlyTheList
  <2> SUFFICES ASSUME case \in BasicCases, ValidUserList(case.users)
               PROVE  LET listed == {case.users[i] : i \in DOMAIN case.users} \ {<<"">>}
                          answer == BasicGuard(parseUserList(case.users), case.header)
                      IN  /\ answer = 500 <=> listed = {}
                          /\ answer = Pass <=> case.header.scheme = "basic" /\ case.header.parts \in listed
    BY <1>1, Kinds DEF BasicAcceptsExactlyTheList
  <2> DEFINE users  == case.users
             header == case.header
             names  == {users[i][1] : i \in Given(users)}
             book   == parseUserList(users)
             listed == {users[i] : i \in DOMAIN users} \ {<<"">>}
  <2>1. users \in Seq(Split) /\ header.parts \in Split
    BY CasesAssumption DEF BasicCases
  <2>2. \A i \in Given(users) : users[i] \in Split /\ Len(users[i]) > 1 /\ Len(users[i]) \in Nat
    <3> SUFFICES ASSUME NEW i \in Given(users)
                 PROVE  users[i] \in Split /\ Len(users[i]) > 1 /\ Len(users[i]) \in Nat
      OBVIOUS
    <3>1. users[i] \in Split
      <4>1. i \in DOMAIN users
        BY DEF Given
      <4> HIDE DEF users
      <4> QED BY <2>1, <4>1, Element
    <3>2. Len(users[i]) \in Nat /\ Len(users[i]) # 0
      BY <3>1 DEF Split
    <3>3. Len(users[i]) # 1
      BY DEF ValidUserList, MalformedEntry
    <3>4. \A n \in Nat : n # 0 /\ n # 1 => n > 1
      OBVIOUS
    <3>5. Len(users[i]) > 1
      BY <3>2, <3>3, <3>4, Zenon
    <3> QED BY <3>1, <3>2, <3>5
  <2>3. \A s \in Split : Head(s) = s[1]
    BY DEF Split
  <2>4. DOMAIN book = names
    BY DEF parseUserList
  <2>5. \A i \in Given(users) : book[users[i][1]] = Tail(users[i])
    <3> SUFFICES ASSUME NEW i \in Given(users) PROVE book[users[i][1]] = Tail(users[i])
      OBVIOUS
    <3> DEFINE j == CHOOSE j \in Given(users) : users[j][1] = users[i][1]
    <3>1. j \in Given(users) /\ users[j][1] = users[i][1]
      OBVIOUS
    <3>2. j = i
      BY <3>1 DEF ValidUserList
    <3>3. users[i][1] \in names
      OBVIOUS
    <3>4. book[users[i][1]] = Tail(users[j])
      BY <3>3 DEF parseUserList
    <3> QED BY <3>2, <3>4
  <2>6. listed = {users[i] : i \in Given(users)}
    BY DEF Given
  <2>7. names = {} <=> listed = {}
    <3>1. names = {} <=> Given(users) = {}
      OBVIOUS
    <3>2. listed = {} <=> Given(users) = {}
      BY <2>6
    <3> QED BY <3>1, <3>2
  <2> HIDE DEF users, header, names, book, listed
  <2>8. header.parts \in listed
          <=> Len(header.parts) > 1 /\ Head(header.parts) \in names
              /\ Tail(header.parts) = book[Head(header.parts)]
    <3>1. ASSUME header.parts \in listed
          PROVE  /\ Len(header.parts) > 1 /\ Head(header.parts) \in names
                 /\ Tail(header.parts) = book[Head(header.parts)]
      <4>1. PICK i \in Given(users) : header.parts = users[i]
        BY <2>6, <3>1
      <4> QED BY <2>2, <2>3, <2>5, <4>1 DEF names
    <3>2. ASSUME Len(header.parts) > 1, Head(header.parts) \in names,
                 Tail(header.parts) = book[Head(header.parts)]
          PROVE  header.parts \in listed
      <4>1. PICK i \in Given(users) : Head(header.parts) = users[i][1]
        BY <3>2 DEF names
      <4>2. Tail(header.parts) = Tail(users[i]) /\ users[i] \in Split /\ Head(users[i]) = users[i][1]
        BY <2>2, <2>3, <2>5, <3>2, <4>1
      <4>3. header.parts = users[i]
        BY <2>1, <4>1, <4>2, HeadAndTail
      <4> QED BY <2>6, <4>3
    <3> QED BY <3>1, <3>2
  <2>9. /\ BasicGuard(book, header) = 500 <=> names = {}
        /\ BasicGuard(book, header) = Pass
             <=> /\ names # {} /\ header.scheme = "basic" /\ Len(header.parts) > 1
                 /\ Head(header.parts) \in names
                 /\ Tail(header.parts) = book[Head(header.parts)]
    <3>1. parseBasicAuthHeader(header) # Null
            <=> header.scheme = "basic" /\ Len(header.parts) > 1
      BY <2>1 DEF parseBasicAuthHeader, Null, Split
    <3>2. header.scheme = "basic" /\ Len(header.parts) > 1 => parseBasicAuthHeader(header) = header.parts
      BY DEF parseBasicAuthHeader
    <3>3. BasicGuard(book, header) = 500 <=> names = {}
      BY <2>4 DEF BasicGuard, Pass
    <3>4. CASE names = {}
      BY <2>4, <3>4 DEF BasicGuard, Pass
    <3>5. CASE names # {} /\ parseBasicAuthHeader(header) = Null
      BY <2>4, <3>1, <3>5 DEF BasicGuard, Pass
    <3>6. CASE names # {} /\ parseBasicAuthHeader(header) # Null
      <4>1. parseBasicAuthHeader(header) = header.parts
        BY <3>1, <3>2, <3>6
      <4> DEFINE parts == header.parts
      <4> HIDE DEF parts
      <4>2. parts = header.parts
        BY DEF parts
      <4>3. BasicGuard(book, header) = Pass <=> Head(parts) \in names /\ Tail(parts) = book[Head(parts)]
        BY <2>4, <3>6, <4>1, <4>2 DEF BasicGuard, Pass
      <4> QED BY <3>1, <3>3, <3>6, <4>2, <4>3
    <3> QED BY <3>3, <3>4, <3>5, <3>6
  <2>10. names # {} => names # {} /\ listed # {}
    BY <2>7
  <2> QED BY <2>7, <2>8, <2>9 DEF users, header, book, listed
<1> QED BY <1>1, Considered, PTL

-----------------------------------------------------------------------------
(* The TTL rules hold for any ages, cap and default.                       *)
THEOREM TtlForAll == Spec => []TtlFollowsTheOrigin
<1>1. ASSUME case \in Inputs PROVE TtlFollowsTheOrigin
  <2> SUFFICES ASSUME case \in TtlCases PROVE TtlFollowsTheOrigin
    BY <1>1, Kinds DEF TtlFollowsTheOrigin
  <2>1. /\ case.control.sMaxAge \in Nat \union {Unset} /\ case.control.maxAge \in Nat \union {Unset}
        /\ case.control.forbids \in BOOLEAN
    BY CasesAssumption DEF TtlCases
  <2> QED BY <2>1, TtlAssumption DEF TtlFollowsTheOrigin, resolveTtl, Unset
<1> QED BY <1>1, Considered, PTL

(* No error of the gateway's own or an upstream's shows, for any codes and *)
(* statuses.                                                               *)
THEOREM InternalsForAll == Spec => []InternalsStayInside
<1>1. ASSUME case \in Inputs PROVE InternalsStayInside
  <2> SUFFICES ASSUME case \in ErrorCases PROVE InternalsStayInside
    BY <1>1, Kinds DEF InternalsStayInside
  <2> DEFINE status == resolveStatus(case.err)
             upstream == UPSTREAM_TIMEOUT_CODES \union UPSTREAM_CONNECTION_CODES
                           \union {REPLY_FROM_WRAPPER_CODE}
  <2>1. case.err.statusCode \in Nat
    <3>1. case.err.statusCode \in {0} \union Statuses
      BY DEF ErrorCases
    <3> QED BY <3>1, Amount
  <2>2. status \in Nat /\ (case.err.code \in upstream => status \in {502, 504})
    <3>1. CASE case.err.code \in UPSTREAM_TIMEOUT_CODES
      BY <3>1 DEF resolveStatus, UPSTREAM_TIMEOUT_CODES, UPSTREAM_CONNECTION_CODES, REPLY_FROM_WRAPPER_CODE
    <3>2. CASE case.err.code \in UPSTREAM_CONNECTION_CODES
      BY <3>2 DEF resolveStatus, UPSTREAM_TIMEOUT_CODES, UPSTREAM_CONNECTION_CODES, REPLY_FROM_WRAPPER_CODE
    <3>3. CASE case.err.code = REPLY_FROM_WRAPPER_CODE
      BY <3>3 DEF resolveStatus, UPSTREAM_TIMEOUT_CODES, UPSTREAM_CONNECTION_CODES, REPLY_FROM_WRAPPER_CODE
    <3>4. CASE case.err.code \notin upstream
      BY <2>1, <3>4 DEF resolveStatus
    <3> QED BY <3>1, <3>2, <3>3, <3>4
  <2> HIDE DEF status
  <2>3. clientMessage(status) = "the error's own" <=> status < 500
    BY <2>2 DEF clientMessage
  <2> QED BY <2>2, <2>3 DEF InternalsStayInside, status
<1> QED BY <1>1, Considered, PTL

(* What goes on with a request is clean, for any ids and headers.          *)
THEOREM ContextForAll == Spec => []ContextIsClean
<1>1. ASSUME case \in Inputs PROVE ContextIsClean
  <2> SUFFICES ASSUME case \in ContextCases PROVE ContextIsClean
    BY <1>1, Kinds DEF ContextIsClean
  <2> DEFINE h == case.headers
             parent == h.traceparent
             named == parent.wellFormed /\ parent.trace # Zero /\ parent.span # Zero
             valid == named /\ parent.version # "ff"
             out == requestContext(h, FreshIds)
  <2>1. FreshIds.id.safe /\ FreshIds.id.present
    BY DEF FreshIds
  <2>2. /\ h.requestId.safe \in BOOLEAN /\ h.requestId.present \in BOOLEAN
        /\ h.correlationId.safe \in BOOLEAN /\ h.correlationId.present \in BOOLEAN
        /\ parent.wellFormed \in BOOLEAN
    BY DEF ContextCases, Ids
  <2>3. parseTraceparent(parent) =
          IF valid THEN [trace |-> parent.trace, span |-> parent.span, flags |-> parent.flags]
          ELSE NoTrace
    BY <2>2 DEF parseTraceparent
  <2>4. parseTraceparent(parent) # NoTrace <=> valid
    BY <2>3 DEF NoTrace
  <2> DEFINE next == nextTraceContext(parent, FreshIds.trace, FreshIds.span)
  <2>5. /\ next.context.span = FreshIds.span
        /\ next.context.trace = IF valid THEN parent.trace ELSE FreshIds.trace
        /\ next.continued <=> valid
    BY <2>3, <2>4 DEF nextTraceContext
  <2>6. SafeOr(h.requestId, FreshIds.id).safe
    BY <2>1, <2>2 DEF SafeOr
  <2>7. SafeOr(h.correlationId, SafeOr(h.requestId, FreshIds.id)).safe
    BY <2>2, <2>6 DEF SafeOr
  <2>8. /\ out.requestId = SafeOr(h.requestId, FreshIds.id)
        /\ out.correlationId = SafeOr(h.correlationId, SafeOr(h.requestId, FreshIds.id))
        /\ out.traceparent = next.context
        /\ out.tracestate <=> next.continued /\ h.tracestate = "short"
    BY DEF requestContext
  <2>9. ("00" # "ff") /\ (valid <=> named /\ parent.version # "ff")
    OBVIOUS
  <2> HIDE DEF out, next, valid, named
  <2>10. /\ out.requestId.safe /\ out.correlationId.safe
         /\ out.traceparent.span = FreshIds.span
         /\ named /\ parent.version = "00" => out.traceparent.trace = parent.trace
         /\ ~named \/ parent.version = "ff" => out.traceparent.trace = FreshIds.trace
         /\ out.tracestate => /\ named /\ out.traceparent.trace = parent.trace
                              /\ h.tracestate = "short"
    BY <2>5, <2>6, <2>7, <2>8, <2>9
  <2> QED BY <2>10 DEF ContextIsClean, out, named
<1> QED BY <1>1, Considered, PTL

(* Keys and passwords go no further, whatever chain of proxies a request   *)
(* has come through.                                                       *)
THEOREM CredentialsForAll == Spec => []KeysAndPasswordsStayHome
<1>1. ASSUME case \in Inputs PROVE KeysAndPasswordsStayHome
  <2> SUFFICES ASSUME case \in HeaderCases PROVE KeysAndPasswordsStayHome
    BY <1>1, Kinds DEF KeysAndPasswordsStayHome
  <2> DEFINE chain == case.headers.forwardedFor
             out == rewriteRequestHeaders(case.auth, case.upstreamAuth, case.trustProxy, "peer",
                                          case.headers)
  <2>1. /\ chain \in Seq(STRING) /\ case.trustProxy \in BOOLEAN
        /\ case.upstreamAuth \in {"absent", "gateway"} /\ case.upstream.parses \in BOOLEAN
        /\ case.upstream \in [parses : BOOLEAN, userinfo : {"", "user:pass"}]
    BY CasesAssumption DEF HeaderCases
  <2> HIDE DEF chain
  <2>2. /\ Append(chain, "peer")[Len(chain) + 1] = "peer"
        /\ Len(Append(chain, "peer")) = Len(chain) + 1 /\ Len(chain) \in Nat
    BY <2>1, Appended
  <2>3. /\ out.forwardedFor = IF case.trustProxy THEN Append(chain, "peer") ELSE <<"peer">>
        /\ ~case.trustProxy => out.forwardedHost = "own" /\ out.forwardedProto = "own"
    BY DEF rewriteRequestHeaders, Told, chain
  <2> HIDE DEF out
  <2>4. /\ out.forwardedFor[Len(out.forwardedFor)] = "peer"
        /\ Len(out.forwardedFor) > 1 \/ "claimed" \in {out.forwardedHost, out.forwardedProto}
             => case.trustProxy
    <3>1. CASE case.trustProxy
      BY <2>2, <2>3, <3>1
    <3>2. CASE ~case.trustProxy
      BY <2>3, <3>2
    <3> QED BY <3>1, <3>2
  <2>5. /\ out.apiKey = "absent"
        /\ out.authorization = "client" => case.auth # "basic" /\ case.upstreamAuth = "absent"
        /\ case.upstreamAuth = "gateway" => out.authorization = "gateway"
    BY <2>1 DEF rewriteRequestHeaders, consumesAuthorizationHeader, out
  <2>6. case.upstream.parses => redactUrlCredentials(case.upstream).userinfo = ""
    BY <2>1 DEF redactUrlCredentials
  <2> QED BY <2>4, <2>5, <2>6 DEF KeysAndPasswordsStayHome, out
<1> QED BY <1>1, Considered, PTL

-----------------------------------------------------------------------------
(* Which of the numbers written in a variable are large enough.            *)
LEMMA AtLeast ==
  ASSUME NEW least \in 0..1
  PROVE  3 >= least /\ (0 >= least <=> least = 0) /\ ~(-1 >= least)
OBVIOUS

LEMMA NoNumber == 3 \notin {NaN, Infinity} /\ 0 \notin {NaN, Infinity}
BY DEF NaN, Infinity

(* The three readers, one after the other.                                 *)
LEMMA NumberReader ==
  ASSUME case.kind = "number", case \in EnvCases, case.raw # " "
  PROVE  envNumber(case.raw, 4, case.min) =
           CASE case.raw \in {"unset", ""} -> {4}
             [] case.raw = "3" -> {3}
             [] case.raw = "0" /\ case.min = 0 -> {0}
             [] OTHER -> {}
<1>1. /\ case.raw \in {"unset", "", "-1", "0", "3", "x", "Infinity"} /\ case.min \in 0..1
  BY DEF EnvCases
<1>2. CASE case.raw \in {"unset", ""}
  BY <1>2 DEF envNumber
<1>3. CASE case.raw \notin {"unset", ""}
  <2> DEFINE n == Number(case.raw)
  <2>1. envNumber(case.raw, 4, case.min) = {m \in {n} : m \notin {NaN, Infinity} /\ m >= case.min}
    BY <1>3 DEF envNumber
  <2>2. CASE case.raw = "3"
    <3>1. n = 3
      BY <2>2 DEF Number
    <3> HIDE DEF n
    <3>2. n \notin {NaN, Infinity} /\ n >= case.min
      BY <1>1, <3>1, AtLeast, NoNumber
    <3>3. envNumber(case.raw, 4, case.min) = {3}
      BY <2>1, <3>1, <3>2
    <3> QED BY <2>2, <3>3
  <2>3. CASE case.raw = "0"
    <3>1. n = 0
      BY <2>3 DEF Number
    <3> HIDE DEF n
    <3>2. n \notin {NaN, Infinity} /\ (n >= case.min <=> case.min = 0)
      BY <1>1, <3>1, AtLeast, NoNumber
    <3>3. envNumber(case.raw, 4, case.min) = IF case.min = 0 THEN {0} ELSE {}
      BY <2>1, <3>1, <3>2
    <3> QED BY <2>3, <3>3
  <2>4. CASE case.raw \in {"-1", "x", "Infinity"}
    <3>1. n = -1 \/ n \in {NaN, Infinity}
      BY <2>4 DEF Number
    <3> HIDE DEF n
    <3>2. n = -1 => ~(n >= case.min)
      BY <1>1, AtLeast
    <3>3. envNumber(case.raw, 4, case.min) = {}
      BY <2>1, <3>1, <3>2
    <3> QED BY <2>4, <3>3
  <2> QED BY <1>1, <1>3, <2>2, <2>3, <2>4
<1> QED BY <1>2, <1>3

LEMMA BooleanReader ==
  ASSUME case.kind = "boolean", case \in EnvCases
  PROVE  envBoolean(case.raw, case.default) =
           CASE case.raw = "true" -> {TRUE} [] case.raw = "false" -> {FALSE}
             [] case.raw = "TRUE" -> {} [] OTHER -> {case.default}
<1>1. case.raw \in {"unset", "", "true", "false", "TRUE"}
  BY DEF EnvCases
<1>2. CASE case.raw \in {"unset", ""}
  BY <1>2 DEF envBoolean
<1>3. CASE case.raw \in {"true", "false", "TRUE"}
  <2>1. {b \in BOOLEAN : case.raw = IF b THEN "true" ELSE "false"} =
          CASE case.raw = "true" -> {TRUE} [] case.raw = "false" -> {FALSE} [] OTHER -> {}
    BY <1>3
  <2> QED BY <1>3, <2>1 DEF envBoolean
<1> QED BY <1>1, <1>2, <1>3

LEMMA EnumReader ==
  ASSUME case.kind = "enum", case \in EnvCases
  PROVE  envEnum(case.raw, {"fastify", "single", "off"}, "fastify") =
           CASE case.raw = "single" -> {"single"} [] case.raw = "Single" -> {}
             [] OTHER -> {"fastify"}
<1>1. case.raw \in {"unset", "", "single", "Single"}
  BY DEF EnvCases
<1> QED BY <1>1 DEF envEnum

(* No variable is of two types.                                            *)
LEMMA OneType ==
  /\ \A name \in Flags : name \notin DOMAIN Numbers
  /\ \A name \in DOMAIN Enums : name \notin DOMAIN Numbers /\ name \notin Flags
  /\ \A name \in Urls : name \notin DOMAIN Numbers /\ name \notin Flags /\ name \notin DOMAIN Enums
<1>1. \A name \in Flags : name \notin DOMAIN Numbers
  BY DEF Flags, Numbers
<1>2. \A name \in DOMAIN Enums : name \notin DOMAIN Numbers /\ name \notin Flags
  BY DEF Enums, Flags, Numbers
<1>3. \A name \in Urls : name \notin DOMAIN Numbers /\ name \notin Flags /\ name \notin DOMAIN Enums
  BY DEF Urls, Enums, Flags, Numbers
<1> QED BY <1>1, <1>2, <1>3

(* What is made of a variable that is set.                                 *)
LEMMA Config ==
  ASSUME NEW name, NEW raw, raw # "unset"
  PROVE  /\ name \in DOMAIN Numbers => config(name, raw) = coerceNumber(raw)
         /\ name \in Flags =>
              config(name, raw) = {b \in BOOLEAN : raw = IF b THEN "true" ELSE "false"}
         /\ name \in DOMAIN Enums => config(name, raw) = {raw} \intersect Enums[name].allowed
         /\ name \in Urls => config(name, raw) = {raw} \intersect {"http:", "https:"}
<1>1. name \in DOMAIN Numbers => config(name, raw) = coerceNumber(raw)
  BY OneType DEF config
<1>2. name \in Flags => config(name, raw) = {b \in BOOLEAN : raw = IF b THEN "true" ELSE "false"}
  BY OneType DEF config
<1>3. name \in DOMAIN Enums => config(name, raw) = {raw} \intersect Enums[name].allowed
  BY OneType DEF config
<1>4. name \in Urls => config(name, raw) = {raw} \intersect {"http:", "https:"}
  BY OneType DEF config
<1> QED BY <1>1, <1>2, <1>3, <1>4

(* The schema takes what is meant, by the variable's type.                 *)
LEMMA SchemaReader ==
  ASSUME case \in ConfigCases, case.raw # "unset", ~BlankNumber(case)
  PROVE  LET meant == CASE case.name \in DOMAIN Numbers -> {"-1", "3"}
                        [] case.name \in Flags -> {"true"}
                        [] case.name \in DOMAIN Enums ->
                             IF case.name = "ALERT_LEVEL" THEN {"warn"} ELSE {"slack"}
                        [] OTHER -> {"http:"}
         IN  config(case.name, case.raw) # {} <=> case.raw \in meant
<1>1. /\ case.name \in Variables
      /\ case.raw \in {"", " ", "-1", "3", "x", "true", "TRUE", "slack", "warn", "http:", "ftp:"}
  BY DEF ConfigCases
<1> DEFINE raw == case.raw
<1>2. CASE case.name \in DOMAIN Numbers
  <2>1. raw \in {"-1", "3"} => raw # "" /\ Number(raw) \in {-1, 3}
    BY DEF Number
  <2>2. raw \in {"x", "true", "TRUE", "slack", "warn", "http:", "ftp:"} => Number(raw) = NaN
    BY DEF Number
  <2>3. coerceNumber(raw) # {} <=> raw # "" /\ Number(raw) # NaN
    BY DEF coerceNumber
  <2>4. config(case.name, raw) = coerceNumber(raw)
    BY <1>2, Config
  <2>5. \A n \in {-1, 3} : n # NaN
    BY DEF NaN
  <2>6. raw # " "
    BY <1>2 DEF BlankNumber, ConfigCases
  <2> HIDE DEF raw
  <2>7. config(case.name, raw) # {} <=> raw \in {"-1", "3"}
    <3>1. CASE raw \in {"-1", "3"}
      BY <2>1, <2>3, <2>4, <2>5, <3>1
    <3>2. CASE raw = ""
      BY <2>3, <2>4, <3>2
    <3>3. CASE raw \in {"x", "true", "TRUE", "slack", "warn", "http:", "ftp:"}
      BY <2>2, <2>3, <2>4, <3>3
    <3> QED BY <1>1, <2>6, <3>1, <3>2, <3>3 DEF raw
  <2> USE DEF raw
  <2> QED BY <1>2, <2>7, OneType
<1>3. CASE case.name \in Flags
  <2>1. config(case.name, raw) = {b \in BOOLEAN : raw = IF b THEN "true" ELSE "false"}
    BY <1>3, Config
  <2>2. config(case.name, raw) # {} <=> raw \in {"true", "false"}
    BY <2>1
  <2>3. raw # "false"
    BY <1>1
  <2> QED BY <1>3, <2>2, <2>3, OneType
<1>4. CASE case.name \in DOMAIN Enums
  <2>1. DOMAIN Enums = {"ALERT_CHANNEL", "ALERT_LEVEL"}
    BY DEF Enums
  <2>2. /\ case.name = "ALERT_LEVEL" => Enums[case.name].allowed = {"error", "warn"}
        /\ case.name = "ALERT_CHANNEL" => Enums[case.name].allowed = {"none", "slack", "discord"}
    BY DEF Enums
  <2>3. config(case.name, raw) # {} <=> raw \in Enums[case.name].allowed
    BY <1>4, Config
  <2>4. config(case.name, raw) # {}
          <=> raw \in IF case.name = "ALERT_LEVEL" THEN {"warn"} ELSE {"slack"}
    BY <1>1, <1>4, <2>1, <2>2, <2>3
  <2> QED BY <1>4, <2>4, OneType
<1>5. CASE case.name \in Urls
  <2>1. config(case.name, raw) = {raw} \intersect {"http:", "https:"}
    BY <1>5, Config
  <2>2. raw # "https:"
    BY <1>1
  <2> QED BY <1>5, <2>1, <2>2, OneType
<1> QED BY <1>1, <1>2, <1>3, <1>4, <1>5 DEF Variables

(* The readers and the schema take what is written and refuse the rest,    *)
(* for every variable; of blank numbers, which are read as 0, this says    *)
(* nothing.                                                                *)
THEOREM EnvForAll == Spec => []EnvReadersFailFast
<1>1. ASSUME case \in Inputs PROVE EnvReadersFailFast
  BY <1>1, Kinds, NumberReader, BooleanReader, EnumReader, SchemaReader DEF EnvReadersFailFast
<1> QED BY <1>1, Considered, PTL

-----------------------------------------------------------------------------
(* Log lines reach their channels, for any texts and any buffer.           *)
THEOREM LogsForAll == Spec => []LogsReachTheirChannels
<1>1. ASSUME case \in Inputs PROVE LogsReachTheirChannels
  <2> SUFFICES ASSUME case \in LogCases PROVE LogsReachTheirChannels
    BY <1>1, Kinds DEF LogsReachTheirChannels
  <2> DEFINE texts  == case.texts
             named  == {t.word : t \in texts} \ {""}
             chosen == parseDestinations(texts)
             to     == IF named = {} THEN {"console"} ELSE named
             bytes  == case.bufferBytes
  <2>1. bytes \in Nat /\ texts \subseteq Texts(Words)
    BY Amount DEF LogCases, Lists
  <2>2. \A t \in texts : ToLowerCase(Trim(t)).word = t.word
    BY <2>1 DEF ToLowerCase, Trim, Texts
  <2>3. {ToLowerCase(Trim(t)).word : t \in texts} \ {""} = named
    BY <2>2
  <2> HIDE DEF named
  <2>4. chosen = IF to \subseteq {"console", "file"} THEN {to} ELSE {}
    BY <2>3 DEF parseDestinations, VALID_DESTINATIONS
  <2>5. chosen = {} <=> ~(named \subseteq {"console", "file"})
    BY <2>4
  <2> HIDE DEF chosen
  <2>6. ASSUME NEW destinations \in chosen
        PROVE  LET built == sinks(destinations, bytes)
               IN  /\ {s.to : s \in built} = to
                   /\ \A s \in built : ~LostAtExit(s)
                   /\ \A s \in built : s.to = "console" => (s.buffered <=> bytes > 0)
    <3>1. destinations = to /\ to \subseteq {"console", "file"} /\ to # {}
      BY <2>4, <2>6
    <3> HIDE DEF bytes, to
    <3>2. destinations = {"console", "file"} \/ destinations = {"file"} \/ destinations = {"console"}
      BY <3>1
    <3>3. {"console", "file"} # {"file"} /\ {"console"} # {"file"} /\ {"console"} # {"console", "file"}
      <4>1. "console" \notin {"file"} /\ "file" \notin {"console"}
        OBVIOUS
      <4> QED BY <4>1
    <3>4. ASSUME NEW built, destinations = {"console", "file"},
                 built = {Sink("console", "tracked", bytes > 0), Sink("file", "tracked", TRUE)}
          PROVE  /\ {s.to : s \in built} = destinations
                 /\ \A s \in built : ~LostAtExit(s)
                 /\ \A s \in built : s.to = "console" => (s.buffered <=> bytes > 0)
      <4>1. \A s \in built : \/ s = Sink("console", "tracked", bytes > 0)
                             \/ s = Sink("file", "tracked", TRUE)
        BY <3>4
      <4>2. \A x : Sink("console", "tracked", x).to = "console" /\ Sink("file", "tracked", x).to = "file"
        BY DEF Sink
      <4>3. {s.to : s \in built} = {"console", "file"}
        BY <3>4, <4>2
      <4>4. \A s \in built : ~LostAtExit(s)
        BY <4>1 DEF Sink, LostAtExit
      <4>5. \A s \in built : s.to = "console" => (s.buffered <=> bytes > 0)
        <5>1. Sink("console", "tracked", bytes > 0).buffered <=> bytes > 0
          BY DEF Sink
        <5>2. \A s \in built : s.to = "console" => s = Sink("console", "tracked", bytes > 0)
          BY <4>1, <4>2
        <5> QED BY <5>1, <5>2, Zenon
      <4> QED BY <3>4, <4>3, <4>4, <4>5
    <3>5. ASSUME NEW built, destinations = {"file"}, built = {Sink("file", "worker", TRUE)}
          PROVE  /\ {s.to : s \in built} = destinations
                 /\ \A s \in built : ~LostAtExit(s)
                 /\ \A s \in built : s.to = "console" => (s.buffered <=> bytes > 0)
      BY <3>5 DEF Sink, LostAtExit
    <3>6. ASSUME NEW built, destinations = {"console"},
                 built = {Sink("console", IF bytes > 0 THEN "tracked" ELSE "default", bytes > 0)}
          PROVE  /\ {s.to : s \in built} = destinations
                 /\ \A s \in built : ~LostAtExit(s)
                 /\ \A s \in built : s.to = "console" => (s.buffered <=> bytes > 0)
      <4> DEFINE s == Sink("console", IF bytes > 0 THEN "tracked" ELSE "default", bytes > 0)
      <4>1. /\ s.to = "console" /\ (s.buffered <=> bytes > 0)
            /\ s.stream = IF bytes > 0 THEN "tracked" ELSE "default"
        BY DEF Sink
      <4>2. ~LostAtExit(s)
        BY <4>1 DEF LostAtExit
      <4> HIDE DEF s
      <4>3. built = {s}
        BY <3>6 DEF s
      <4>4. \A t \in built : t = s
        BY <4>3
      <4>5. {t.to : t \in built} = {"console"}
        BY <4>1, <4>3
      <4>6. \A t \in built : ~LostAtExit(t)
        BY <4>2, <4>4
      <4>7. \A t \in built : t.to = "console" => (t.buffered <=> bytes > 0)
        BY <4>1, <4>4, Zenon
      <4> QED BY <3>6, <4>5, <4>6, <4>7
    <3> DEFINE built == sinks(destinations, bytes)
    <3>7. \/ /\ destinations = {"console", "file"}
             /\ built = {Sink("console", "tracked", bytes > 0), Sink("file", "tracked", TRUE)}
          \/ destinations = {"file"} /\ built = {Sink("file", "worker", TRUE)}
          \/ /\ destinations = {"console"}
             /\ built = {Sink("console", IF bytes > 0 THEN "tracked" ELSE "default", bytes > 0)}
      BY <3>2, <3>3, Zenon DEF sinks
    <3> HIDE DEF built
    <3> QED BY <3>1, <3>4, <3>5, <3>6, <3>7 DEF built
  <2> QED BY <2>5, <2>6 DEF LogsReachTheirChannels, named, chosen
<1> QED BY <1>1, Considered, PTL

(* A response is logged once and counted under known labels, for any       *)
(* thresholds, methods, routes and statuses.                               *)
THEOREM ObservedForAll == Spec => []ResponsesAreObserved
<1>1. ASSUME case \in Inputs PROVE ResponsesAreObserved
  <2> SUFFICES ASSUME case \in ResponseCases,
                      NEW style \in envEnum(case.style, LogRequestStyles, "fastify")
               PROVE  LET lines  == responseLines(style, case.slowMs, case.elapsed)
                          labels == metricLabels(case.method, case.route, case.status)
                      IN  /\ Cardinality(lines \ {"incoming", "slow"}) = IF case.style = "off" THEN 0 ELSE 1
                          /\ "incoming" \in lines <=> "completed by fastify" \in lines
                          /\ "slow" \in lines <=> case.slowMs # 0 /\ case.elapsed >= case.slowMs
                          /\ labels.method \in KNOWN_HTTP_METHODS \union {"OTHER"}
                          /\ labels.route \in {"unmatched"} \union (Routes \ {"undefined"})
    BY <1>1, Kinds DEF ResponsesAreObserved
  <2> DEFINE slow  == case.slowMs > 0 /\ case.elapsed >= case.slowMs
             lines == responseLines(style, case.slowMs, case.elapsed)
             rest  == lines \ {"incoming", "slow"}
  <2>1. /\ case.slowMs \in Nat /\ case.elapsed \in Nat /\ case.route \in Routes
        /\ case.style \in {"unset", "single", "off", "fastify", "Single"}
    BY Amount DEF ResponseCases
  <2>2. style \in LogRequestStyles /\ (style = "off" <=> case.style = "off")
    BY <2>1 DEF envEnum, LogRequestStyles
  <2>3. slow <=> case.slowMs # 0 /\ case.elapsed >= case.slowMs
    BY <2>1
  <2>4. lines = (IF style = "fastify" THEN {"incoming", "completed by fastify"} ELSE {})
                  \union (IF style = "single" THEN {"completed by the plugin"} ELSE {})
                  \union (IF slow THEN {"slow"} ELSE {})
    BY DEF responseLines, disableRequestLogging, loggingHooks
  <2> HIDE DEF slow, lines
  <2>5. /\ style = "fastify" => rest = {"completed by fastify"}
        /\ style = "single" => rest = {"completed by the plugin"}
        /\ style = "off" => rest = {}
    BY <2>4
  <2>6. Cardinality(rest) = IF case.style = "off" THEN 0 ELSE 1
    BY <2>2, <2>5, FS_EmptySet, FS_Singleton DEF LogRequestStyles
  <2>7. /\ "incoming" \in lines <=> "completed by fastify" \in lines
        /\ "slow" \in lines <=> slow
    BY <2>4
  <2>8. /\ metricLabels(case.method, case.route, case.status).method \in KNOWN_HTTP_METHODS \union {"OTHER"}
        /\ metricLabels(case.method, case.route, case.status).route
             \in {"unmatched"} \union (Routes \ {"undefined"})
    BY <2>1 DEF metricLabels
  <2> QED BY <2>3, <2>6, <2>7, <2>8 DEF lines
<1> QED BY <1>1, Considered, PTL

-----------------------------------------------------------------------------
(* The features an environment boots, part by part.                        *)
LEMMA FlagRead ==
  ASSUME NEW name \in Flags
  PROVE  /\ config(name, "unset") = {FALSE}
         /\ config(name, "true") = {TRUE} /\ config(name, "false") = {FALSE}
         /\ \A raw : raw \notin {"unset", "true", "false"} => config(name, raw) = {}
<1>1. config(name, "unset") = {FALSE}
  BY OneType DEF config
<1>2. ASSUME NEW raw, raw # "unset"
      PROVE  \A b \in BOOLEAN : b \in config(name, raw) <=> raw = IF b THEN "true" ELSE "false"
  BY <1>2, Config
<1>3. ASSUME NEW raw, raw # "unset"
      PROVE  config(name, raw) \subseteq BOOLEAN
  BY <1>3, Config
<1>4. config(name, "true") = {TRUE} /\ config(name, "false") = {FALSE}
  BY <1>2, <1>3
<1>5. \A raw : raw \notin {"unset", "true", "false"} => config(name, raw) = {}
  BY <1>2, <1>3
<1> QED BY <1>1, <1>4, <1>5

(* The services alerts may go to are the two there are, and none.         *)
LEMMA ChannelRead ==
  /\ config("ALERT_CHANNEL", "unset") = {"none"}
  /\ \A raw \in {"slack", "discord"} : config("ALERT_CHANNEL", raw) = {raw}
  /\ config("ALERT_CHANNEL", "email") = {}
<1>1. "ALERT_CHANNEL" \in DOMAIN Enums /\ Enums["ALERT_CHANNEL"].default = "none"
      /\ Enums["ALERT_CHANNEL"].allowed = {"none", "slack", "discord"}
  BY DEF Enums
<1>2. config("ALERT_CHANNEL", "unset") = {"none"}
  BY <1>1, OneType DEF config
<1>3. \A raw : raw # "unset" =>
        config("ALERT_CHANNEL", raw) = {raw} \intersect {"none", "slack", "discord"}
  BY <1>1, Config
<1>4. \A raw \in {"slack", "discord"} : config("ALERT_CHANNEL", raw) = {raw}
  BY <1>3
<1>5. config("ALERT_CHANNEL", "email") = {}
  BY <1>3
<1> QED BY <1>2, <1>4, <1>5

(* CORS is built unless a wildcard comes with credentials.                 *)
LEMMA CorsBuilt ==
  ASSUME NEW texts, NEW credentials \in BOOLEAN
  PROVE  LET any == Text("*") \in {Trim(t) : t \in texts}
         IN  /\ corsOptions(texts, credentials) = {} <=> any /\ credentials
             /\ \A o \in corsOptions(texts, credentials) :
                  /\ o.any <=> any
                  /\ o.origins = {Trim(t) : t \in texts}
                  /\ o.credentials <=> credentials
                  /\ ~(any /\ credentials)
<1> DEFINE origins == {Trim(t) : t \in texts}
           any == Text("*") \in origins
           built == [any |-> any, origins |-> origins, credentials |-> credentials]
<1>1. corsOptions(texts, credentials) = {o \in {built} : ~(o.any /\ o.credentials)}
  BY DEF corsOptions
<1>2. (built.any <=> any) /\ built.origins = origins /\ (built.credentials <=> credentials)
  OBVIOUS
<1> HIDE DEF built, origins, any
<1>3. \A o : o \in corsOptions(texts, credentials) <=> o = built /\ ~(any /\ credentials)
  BY <1>1, <1>2
<1> QED BY <1>2, <1>3 DEF any, origins

(* What is listed are the words of the texts without capitals.             *)
LEMMA ListedText ==
  ASSUME NEW words, NEW texts, texts \subseteq Texts(words), NEW word
  PROVE  Text(word) \in {Trim(t) : t \in texts}
           <=> word \in {t.word : t \in {u \in texts : ~u.upper}}
<1>1. ASSUME NEW t \in texts
      PROVE  Trim(t) = [word |-> t.word, padded |-> FALSE, upper |-> t.upper] /\ t.upper \in BOOLEAN
  <2>1. t \in [word : {t.word}, padded : {t.padded}, upper : {t.upper}] /\ t.upper \in BOOLEAN
    BY DEF Texts
  <2>2. Trim(t) \in [word : {t.word}, padded : {FALSE}, upper : {t.upper}]
    BY <2>1 DEF Trim
  <2> QED BY <2>1, <2>2
<1>2. \A t \in texts : Text(word) = Trim(t) <=> t.word = word /\ ~t.upper
  BY <1>1 DEF Text
<1> QED BY <1>2

(* Alerts go to the service selected, at its URL, or nowhere.              *)
LEMMA ChannelSelected ==
  ASSUME NEW channel, NEW slackUrl, NEW discordUrl
  PROVE  LET selected == selectAlertChannel(channel, slackUrl, discordUrl)
             url      == CASE channel = "slack" -> slackUrl [] channel = "discord" -> discordUrl
                           [] OTHER -> ""
         IN  /\ selected = {} <=> url = ""
             /\ \A c \in selected :
                  /\ c.name = channel /\ c.url = url
                  /\ c.field = IF c.name = "slack" THEN "text" ELSE "content"
<1> DEFINE selected == selectAlertChannel(channel, slackUrl, discordUrl)
<1>1. CASE channel = "slack"
  <2>1. selected = IF slackUrl # "" THEN {slackChannel(slackUrl)} ELSE {}
    BY <1>1 DEF selectAlertChannel
  <2>2. slackChannel(slackUrl).name = "slack" /\ slackChannel(slackUrl).url = slackUrl
        /\ slackChannel(slackUrl).field = "text"
    BY DEF slackChannel
  <2> HIDE DEF selected
  <2> QED BY <1>1, <2>1, <2>2 DEF selected
<1>2. CASE channel = "discord"
  <2>1. selected = IF discordUrl # "" THEN {discordChannel(discordUrl)} ELSE {}
    BY <1>2 DEF selectAlertChannel
  <2>2. discordChannel(discordUrl).name = "discord" /\ discordChannel(discordUrl).url = discordUrl
        /\ discordChannel(discordUrl).field = "content"
    BY DEF discordChannel
  <2> HIDE DEF selected
  <2> QED BY <1>2, <2>1, <2>2 DEF selected
<1>3. CASE channel \notin {"slack", "discord"}
  <2>1. selected = {}
    BY <1>3 DEF selectAlertChannel
  <2> QED BY <1>3, <2>1
<1> QED BY <1>1, <1>2, <1>3

(* A process boots when each of its three parts does.                      *)
LEMMA Parts ==
  ASSUME NEW A, NEW B, NEW C
  PROVE  /\ [cors : A, alerts : B, cached : C] = {} <=> A = {} \/ B = {} \/ C = {}
         /\ \A f \in [cors : A, alerts : B, cached : C] :
              f.cors \in A /\ f.alerts \in B /\ f.cached \in C
<1>1. ASSUME NEW a \in A, NEW b \in B, NEW c \in C PROVE [cors : A, alerts : B, cached : C] # {}
  <2>1. [cors |-> a, alerts |-> b, cached |-> c] \in [cors : A, alerts : B, cached : C]
    OBVIOUS
  <2> QED BY <2>1
<1> QED BY <1>1

(* What an environment boots is what it says, for any origins and any list *)
(* of them.                                                                *)
THEOREM FeaturesForAll == Spec => []FeaturesAreMeant
<1>1. ASSUME case \in Inputs PROVE FeaturesAreMeant
  <2> SUFFICES ASSUME case \in FeatureCases PROVE FeaturesAreMeant
    BY <1>1, Kinds DEF FeaturesAreMeant
  <2> DEFINE env      == case.env
             listed   == {t.word : t \in {u \in env.origins : ~u.upper}}
             url      == CASE env.channel = "slack" -> env.slackUrl
                           [] env.channel = "discord" -> env.discordUrl
                           [] OTHER -> ""
             any      == "*" \in listed
             given    == env.credentials = "true"
             A        == security(env)
             B        == config("ALERTS_ENABLED", env.alerts)
             C        == {selectAlertChannel(c, env.slackUrl, env.discordUrl) :
                            c \in config("ALERT_CHANNEL", env.channel)}
             D        == responseCache(env)
  <2>1. /\ env.origins \subseteq Texts(Origins \union {"*"})
        /\ env.credentials \in {"unset", "true", "on"} /\ env.alerts \in {"unset", "true", ""}
        /\ env.channel \in {"unset", "slack", "discord", "email"}
        /\ env.cache \in {"false", "true"}
    <3>1. Text("*") \in Texts(Origins \union {"*"})
          /\ [Text("*") EXCEPT !.padded = TRUE] \in Texts(Origins \union {"*"})
          /\ Texts(Origins) \subseteq Texts(Origins \union {"*"})
      BY DEF Text, Texts
    <3> QED BY <3>1 DEF FeatureCases, Lists
  <2> HIDE DEF env
  <2>2. \A word : Text(word) \in {Trim(t) : t \in env.origins} <=> word \in listed
    BY <2>1, ListedText
  <2> HIDE DEF listed
  <2>3. /\ A = {} <=> env.credentials = "on" \/ (given /\ any)
        /\ \A o \in A : /\ o.any <=> any
                        /\ o.origins = {Trim(t) : t \in env.origins}
                        /\ o.credentials <=> given
                        /\ ~(any /\ given)
    <3>1. "CORS_ALLOW_CREDENTIALS" \in Flags
      BY DEF Flags
    <3>2. CASE env.credentials = "on"
      <4>1. config("CORS_ALLOW_CREDENTIALS", "on") = {}
        BY <3>1, FlagRead
      <4> QED BY <3>2, <4>1 DEF security
    <3>3. CASE env.credentials \in {"unset", "true"}
      <4>1. given \in BOOLEAN /\ config("CORS_ALLOW_CREDENTIALS", env.credentials) = {given}
        BY <3>1, <3>3, FlagRead
      <4> HIDE DEF given
      <4>2. A = corsOptions(env.origins, given)
        BY <4>1 DEF security
      <4> HIDE DEF A
      <4>3. /\ A = {} <=> given /\ any
            /\ \A o \in A : /\ o.any <=> any
                            /\ o.origins = {Trim(t) : t \in env.origins}
                            /\ o.credentials <=> given
                            /\ ~(any /\ given)
        BY <2>2, <4>1, <4>2, CorsBuilt, Zenon
      <4>4. env.credentials # "on"
        BY <3>3
      <4> QED BY <4>3, <4>4
    <3> QED BY <2>1, <3>2, <3>3
  <2>4. (B = {} <=> env.alerts = "") /\ \A b \in B : b <=> env.alerts = "true"
    <3>1. "ALERTS_ENABLED" \in Flags
      BY DEF Flags
    <3>2. /\ config("ALERTS_ENABLED", "unset") = {FALSE} /\ config("ALERTS_ENABLED", "true") = {TRUE}
          /\ config("ALERTS_ENABLED", "") = {}
      BY <3>1, FlagRead
    <3>3. CASE env.alerts = ""
      BY <3>2, <3>3
    <3>4. CASE env.alerts = "true"
      <4>1. B = {TRUE} /\ env.alerts # ""
        BY <3>2, <3>4
      <4> QED BY <3>4, <4>1
    <3>5. CASE env.alerts = "unset"
      <4>1. B = {FALSE} /\ env.alerts # "" /\ env.alerts # "true"
        BY <3>2, <3>5
      <4> QED BY <4>1
    <3> QED BY <2>1, <3>3, <3>4, <3>5
  <2>5. /\ C = {} <=> env.channel = "email"
        /\ \A c \in C : /\ c = {} <=> url = ""
                        /\ \A s \in c : /\ s.name = env.channel /\ s.url = url
                                        /\ s.field = IF s.name = "slack" THEN "text" ELSE "content"
    <3>1. CASE env.channel = "email"
      BY <3>1, ChannelRead
    <3>2. CASE env.channel \in {"slack", "discord"}
      <4>1. C = {selectAlertChannel(env.channel, env.slackUrl, env.discordUrl)} /\ env.channel # "email"
        BY <3>2, ChannelRead
      <4> DEFINE selected == selectAlertChannel(env.channel, env.slackUrl, env.discordUrl)
      <4>2. /\ selected = {} <=> url = ""
            /\ \A s \in selected : /\ s.name = env.channel /\ s.url = url
                                   /\ s.field = IF s.name = "slack" THEN "text" ELSE "content"
        BY ChannelSelected
      <4> HIDE DEF C, selected, url
      <4>3. C = {selected} /\ env.channel # "email"
        BY <4>1 DEF selected
      <4> QED BY <4>2, <4>3
    <3>3. CASE env.channel = "unset"
      <4>1. C = {selectAlertChannel("none", env.slackUrl, env.discordUrl)}
        BY <3>3, ChannelRead
      <4>2. selectAlertChannel("none", env.slackUrl, env.discordUrl) = {}
        BY DEF selectAlertChannel
      <4>3. url = "" /\ env.channel # "email"
        BY <3>3
      <4> HIDE DEF C, url
      <4> QED BY <4>1, <4>2, <4>3
    <3> QED BY <2>1, <3>1, <3>2, <3>3
  <2>6. /\ D = {} <=> env.cache = "true" /\ env.redisUrl = ""
        /\ \A d \in D : d <=> env.cache = "true"
    <3>1. "CACHE_ENABLED" \in Flags
      BY DEF Flags
    <3>2. config("CACHE_ENABLED", "false") = {FALSE} /\ config("CACHE_ENABLED", "true") = {TRUE}
      BY <3>1, FlagRead
    <3>3. CASE env.cache = "false"
      <4>1. D = {FALSE} /\ env.cache # "true"
        BY <3>2, <3>3 DEF responseCache
      <4> QED BY <4>1
    <3>4. CASE env.cache = "true"
      <4>1. D = {b \in {TRUE} : b => env.redisUrl # ""}
        BY <3>2, <3>4 DEF responseCache
      <4> QED BY <3>4, <4>1
    <3> QED BY <2>1, <3>3, <3>4
  <2>7. /\ features(env) = {} <=> A = {} \/ B = {} \/ C = {} \/ D = {}
        /\ \A f \in features(env) : \E a \in A, b \in B, c \in C, d \in D :
             f.cors = a /\ f.alerts = (IF b THEN c ELSE {}) /\ f.cached = d
    <3> HIDE DEF A, B, C, D
    <3>1. alerts(env) = {IF b THEN c ELSE {} : b \in B, c \in C}
      BY DEF alerts, B, C
    <3>2. alerts(env) = {} <=> B = {} \/ C = {}
      <4>1. ASSUME NEW b \in B, NEW c \in C
            PROVE  (IF b THEN c ELSE {}) \in alerts(env)
        BY <3>1
      <4>2. ASSUME NEW x \in alerts(env)
            PROVE  B # {} /\ C # {}
        BY <3>1
      <4> QED BY <4>1, <4>2
    <3>3. \A x \in alerts(env) : \E b \in B, c \in C : x = IF b THEN c ELSE {}
      BY <3>1
    <3> DEFINE shared == alerts(env)
               built  == features(env)
    <3>4. built = [cors : A, alerts : shared, cached : D]
      BY DEF features, A, D
    <3> HIDE DEF shared, built
    <3>5. /\ built = {} <=> A = {} \/ shared = {} \/ D = {}
          /\ \A f \in built : f.cors \in A /\ f.alerts \in shared /\ f.cached \in D
      BY <3>4, Parts
    <3>6. built = {} <=> A = {} \/ B = {} \/ C = {} \/ D = {}
      BY <3>2, <3>5 DEF shared
    <3>7. ASSUME NEW f \in built
          PROVE  \E a \in A, b \in B, c \in C, d \in D :
                   f.cors = a /\ f.alerts = (IF b THEN c ELSE {}) /\ f.cached = d
      <4>1. PICK b \in B, c \in C : f.alerts = IF b THEN c ELSE {}
        BY <3>3, <3>5 DEF shared
      <4> QED BY <3>5, <4>1
    <3> QED BY <3>6, <3>7 DEF built
  <2> HIDE DEF A, B, C, D, any, given, url
  <2>8. features(env) = {} <=> \/ env.credentials = "on" \/ env.alerts = "" \/ env.channel = "email"
                              \/ (given /\ any)
                              \/ (env.cache = "true" /\ env.redisUrl = "")
    BY <2>3, <2>4, <2>5, <2>6, <2>7
  <2>9. ASSUME NEW f \in features(env), NEW origin
        PROVE  /\ Shared(f.cors, Text(origin)) <=> (origin \in listed \/ any)
               /\ Shared(f.cors, Text(origin)) /\ f.cors.credentials => origin \in listed
               /\ f.alerts = {} <=> (env.alerts = "unset" \/ url = "")
               /\ \A c \in f.alerts :
                    /\ c.name = env.channel /\ c.url = url
                    /\ c.field = IF c.name = "slack" THEN "text" ELSE "content"
               /\ f.cached <=> env.cache = "true"
    <3>1. PICK a \in A, b \in B, c \in C, d \in D :
            f.cors = a /\ f.alerts = (IF b THEN c ELSE {}) /\ f.cached = d
      BY <2>7
    <3>2. Shared(f.cors, Text(origin)) <=> (origin \in listed \/ any)
      BY <2>2, <2>3, <3>1 DEF Shared
    <3>3. Shared(f.cors, Text(origin)) /\ f.cors.credentials => origin \in listed
      BY <2>3, <3>1, <3>2
    <3>4. b <=> env.alerts = "true"
      BY <2>4, <3>1
    <3>5. env.alerts # "" /\ (env.alerts = "true" <=> env.alerts # "unset")
      BY <2>1, <2>4, <3>1
    <3>6. f.alerts = {} <=> (env.alerts = "unset" \/ url = "")
      BY <2>5, <3>1, <3>4, <3>5
    <3>7. \A s \in f.alerts : /\ s.name = env.channel /\ s.url = url
                              /\ s.field = IF s.name = "slack" THEN "text" ELSE "content"
      BY <2>5, <3>1
    <3>8. f.cached <=> env.cache = "true"
      BY <2>6, <3>1
    <3> QED BY <3>2, <3>3, <3>6, <3>7, <3>8
  <2> QED BY <2>8, <2>9 DEF FeaturesAreMeant, env, listed, any, given, url
<1> QED BY <1>1, Considered, PTL
=============================================================================
