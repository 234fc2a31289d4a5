------------------------ MODULE V3Credentials_proofs ------------------------
(***************************************************************************)
(* What validateV3Credentials is good for: credentials it accepts open a   *)
(* session that protects as they ask, for a query and for a trap user.     *)
(***************************************************************************)
EXTENDS V3Credentials, TLAPS

(* The translations of the protocols gosnmp knows.                         *)
LEMMA AuthTable ==
  /\ v3AuthProtocol("md5") = "MD5" /\ v3AuthProtocol("sha") = "SHA"
  /\ v3AuthProtocol("sha224") = "SHA224" /\ v3AuthProtocol("sha256") = "SHA256"
  /\ v3AuthProtocol("sha384") = "SHA384" /\ v3AuthProtocol("sha512") = "SHA512"
  /\ v3AuthProtocol("") = "NoAuth"
BY DEF v3AuthProtocol

(* The same for privacy.                                                   *)
LEMMA PrivTable ==
  /\ v3PrivProtocol("des") = "DES" /\ v3PrivProtocol("aes") = "AES"
  /\ v3PrivProtocol("aes192") = "AES192" /\ v3PrivProtocol("aes256") = "AES256"
  /\ v3PrivProtocol("aes192c") = "AES192C" /\ v3PrivProtocol("aes256c") = "AES256C"
  /\ v3PrivProtocol("") = "NoPriv"
BY DEF v3PrivProtocol

(* Credentials that pass the check open a session as strong as they say,   *)
(* whatever they hold.                                                     *)
THEOREM SessionsKeepProtection ==
  ASSUME NEW c, validateV3Credentials(<<c>>)
  PROVE  /\ NotWeakened(c, SecurityParameters(c))
         /\ c.securityLevel \in {"noAuthNoPriv", "authNoPriv", "authPriv"}
<1> DEFINE s == SecurityParameters(c)
<1>1. /\ s.auth = v3AuthProtocol(c.authProtocol) /\ s.authPassphrase = c.authPassphrase
      /\ s.priv = v3PrivProtocol(c.privProtocol) /\ s.privPassphrase = c.privPassphrase
  BY DEF SecurityParameters
<1>2. \/ /\ c.securityLevel = "noAuthNoPriv" /\ c.authProtocol = "" /\ c.privProtocol = ""
      \/ /\ c.securityLevel = "authNoPriv" /\ c.privProtocol = ""
         /\ c.authProtocol \in AuthProtocols /\ c.authPassphrase # ""
      \/ /\ c.securityLevel = "authPriv"
         /\ c.authProtocol \in AuthProtocols /\ c.authPassphrase # ""
         /\ c.privProtocol \in PrivProtocols /\ c.privPassphrase # ""
  BY DEF validateV3Credentials
<1>3. /\ s.auth = "NoAuth" <=> c.authProtocol = ""
      /\ \A p \in AuthProtocols : v3AuthProtocol(p) = s.auth => p = c.authProtocol
  <2>1. c.authProtocol = "" \/ c.authProtocol \in AuthProtocols
    BY <1>2
  <2>2. QED
    <3> HIDE DEF s
    <3> QED BY <1>1, <2>1, AuthTable DEF AuthProtocols
<1>4. /\ s.priv = "NoPriv" <=> c.privProtocol = ""
      /\ \A p \in PrivProtocols : v3PrivProtocol(p) = s.priv => p = c.privProtocol
  <2>1. c.privProtocol = "" \/ c.privProtocol \in PrivProtocols
    BY <1>2
  <2>2. QED
    <3> HIDE DEF s
    <3> QED BY <1>1, <2>1, PrivTable DEF PrivProtocols
<1>5. "" \notin AuthProtocols /\ "" \notin PrivProtocols
  BY DEF AuthProtocols, PrivProtocols
<1>6. /\ (s.auth = "NoAuth") <=> (c.securityLevel = "noAuthNoPriv")
      /\ (s.priv = "NoPriv") <=> (c.securityLevel # "authPriv")
      /\ s.auth # "NoAuth" => s.authPassphrase # ""
      /\ s.priv # "NoPriv" => s.privPassphrase # ""
  <2> HIDE DEF s
  <2> QED BY <1>1, <1>2, <1>3, <1>4, <1>5
<1>7. QED
  <2> HIDE DEF s
  <2>1. NotWeakened(c, s)
    BY <1>3, <1>4, <1>6 DEF NotWeakened
  <2>2. QED
    BY <1>2, <2>1 DEF s
=============================================================================
