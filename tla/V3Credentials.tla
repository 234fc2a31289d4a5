---------------------------- MODULE V3Credentials ----------------------------
(***************************************************************************)
(* SNMP v3 credentials: the check of validation.go that queries and trap   *)
(* users files share, the translations into gosnmp's constants of          *)
(* executor.go, and the table of trap users of traps.go.  Optional         *)
(* credentials are <<>> or <<record>>.                                     *)
(***************************************************************************)
EXTENDS Sequences

AuthProtocols == {"md5", "sha", "sha224", "sha256", "sha384", "sha512"}
PrivProtocols == {"des", "aes", "aes192", "aes256", "aes192c", "aes256c"}
BlankName(text) == text \in {"", " "}

validateV3Credentials(v3) ==
  LET c == v3[1]
      authenticates == c.authProtocol \in AuthProtocols /\ c.authPassphrase # ""
      noPrivacy == c.privProtocol = "" /\ c.privPassphrase = ""
  IN  /\ v3 # <<>> /\ ~BlankName(c.username)
      /\ \/ /\ c.securityLevel = "noAuthNoPriv" /\ noPrivacy
            /\ c.authProtocol = "" /\ c.authPassphrase = ""
         \/ c.securityLevel = "authNoPriv" /\ authenticates /\ noPrivacy
         \/ /\ c.securityLevel = "authPriv" /\ authenticates
            /\ c.privProtocol \in PrivProtocols /\ c.privPassphrase # ""
-----------------------------------------------------------------------------
v3AuthProtocol(protocol) ==
  CASE protocol = "md5"    -> "MD5"     [] protocol = "sha"    -> "SHA"
    [] protocol = "sha224" -> "SHA224"  [] protocol = "sha256" -> "SHA256"
    [] protocol = "sha384" -> "SHA384"  [] protocol = "sha512" -> "SHA512"
    [] OTHER -> "NoAuth"

v3PrivProtocol_Forgotten(protocol) ==       \* mutant: a new protocol is not translated
  CASE protocol = "des"     -> "DES"      [] protocol = "aes"     -> "AES"
    [] protocol = "aes192"  -> "AES192"   [] protocol = "aes256"  -> "AES256"
    [] OTHER -> "NoPriv"
v3PrivProtocol(protocol) ==
  CASE protocol = "des"     -> "DES"      [] protocol = "aes"     -> "AES"
    [] protocol = "aes192"  -> "AES192"   [] protocol = "aes256"  -> "AES256"
    [] protocol = "aes192c" -> "AES192C"  [] protocol = "aes256c" -> "AES256C"
    [] OTHER -> "NoPriv"

v3MsgFlags(level) ==
  CASE level = "authNoPriv" -> "AuthNoPriv" [] level = "authPriv" -> "AuthPriv"
    [] OTHER -> "NoAuthNoPriv"

(* gosnmp.UsmSecurityParameters; context name and engine ID are left out. *)
SecurityParameters(c) ==
  [user |-> c.username, auth |-> v3AuthProtocol(c.authProtocol),
   authPassphrase |-> c.authPassphrase, priv |-> v3PrivProtocol(c.privProtocol),
   privPassphrase |-> c.privPassphrase]

(* The users of a trap users file: all of them or no service. *)
newTrapDecoder_SkipBad(users) ==        \* mutant: a user that does not check is skipped
  [ok |-> users # <<>>,
   table |-> {SecurityParameters(users[i]) :
                i \in {j \in DOMAIN users : validateV3Credentials(<<users[j]>>)}}]
newTrapDecoder(users) ==
  [ok |-> users # <<>> /\ \A i \in DOMAIN users : validateV3Credentials(<<users[i]>>),
   table |-> {SecurityParameters(users[i]) : i \in DOMAIN users}]
-----------------------------------------------------------------------------
(* The credentials protect a session the way they were asked to. *)
NotWeakened(asked, security) ==
  /\ (security.auth = "NoAuth") <=> (asked.securityLevel = "noAuthNoPriv")
  /\ (security.priv = "NoPriv") <=> (asked.securityLevel # "authPriv")
  /\ security.auth # "NoAuth" => security.authPassphrase # ""
  /\ security.priv # "NoPriv" => security.privPassphrase # ""
  /\ \A p \in AuthProtocols : v3AuthProtocol(p) = security.auth => p = asked.authProtocol
  /\ \A p \in PrivProtocols : v3PrivProtocol(p) = security.priv => p = asked.privProtocol
=============================================================================
