-------------------------- MODULE ConnectionSettings --------------------------
(***************************************************************************)
(* The argument list of the integration (src/src/args/argument_list.go),   *)
(* what Validate accepts, and the connection strings made from it          *)
(* (src/src/connection/sql_connection.go): a URL for SQL and Windows       *)
(* authentication, a list of key=value pairs for an Azure AD service       *)
(* principal.                                                              *)
(*                                                                         *)
(* An argument list is a record with the fields of ArgumentList that are   *)
(* looked at here; "" is the empty text.  ExtraConnectionURLArgs is the    *)
(* sequence of pairs it parses to, or Unparsable.  The driver does not     *)
(* tell upper from lower case in the name of a parameter; a URL does, and  *)
(* so does the code.                                                       *)
(***************************************************************************)
EXTENDS Naturals, Sequences

CONSTANTS
    ExistingFiles,     \* the paths os.Stat finds
    Unparsable,        \* extra arguments url.ParseQuery refuses
    ToLower            \* a function: the name of a parameter in lower case

\* The names the code itself gives to parameters.
ASSUME ToLowerAssumption ==
    /\ \A name \in {"database", "encrypt", "certificate"} : ToLower[name] = name
    /\ ToLower["TrustServerCertificate"] = "trustservercertificate"

\* Validate.  It has a value receiver: the default port it assigns stays in
\* its copy, so an accepted argument list is used as it was given.
Validate(al) ==
    /\ al.Hostname # ""
    /\ al.Port = "" \/ al.Instance = ""
    /\ al.EnableSSL /\ ~al.TrustServerCertificate => al.CertificateLocation # ""
    /\ al.CustomMetricsConfig # "" =>
          al.CustomMetricsQuery = "" /\ al.CustomMetricsConfig \in ExistingFiles

\* DefaultArgumentList of the SDK: with no data type asked for, all are.
All(al) == ~al.Inventory /\ ~al.Metrics /\ ~al.Events
HasInventory(al) == All(al) \/ al.Inventory
HasMetrics(al) == All(al) \/ al.Metrics

-----------------------------------------------------------------------------
(* Connection strings: the port, the instance, and the other parameters as *)
(* pairs in the order of the text.                                         *)

Absent == "absent"

ExtraParameters(al) ==
    IF al.ExtraConnectionURLArgs = Unparsable THEN << >> ELSE al.ExtraConnectionURLArgs

Trust(al) == <<"TrustServerCertificate", IF al.TrustServerCertificate THEN "true" ELSE "false">>

Encrypt(al, certificate) ==
    IF ~al.EnableSSL THEN << >>
    ELSE <<<<"encrypt", "true">>, Trust(al)>> \o (IF al.TrustServerCertificate THEN << >> ELSE certificate)

Certificate(al) == <<<<"certificate", al.CertificateLocation>>>>

CreateConnectionURL(al, dbName) ==
    [form |-> "URL",
     port |-> IF al.Port = "" THEN Absent ELSE al.Port,
     instance |-> IF al.Port = "" THEN al.Instance ELSE "",
     parameters |-> (IF dbName = "" THEN << >> ELSE <<<<"database", dbName>>>>)
                      \o ExtraParameters(al) \o Encrypt(al, Certificate(al))]

\* A bug this code could have had: the extra arguments come last.
ExtraArgumentsLast(al, dbName) ==
    [form |-> "list",
     port |-> al.Port,
     instance |-> "",
     parameters |-> <<<<"database", dbName>>>> \o Encrypt(al, Certificate(al))
                      \o ExtraParameters(al)]

CreateAzureADConnectionURL(al, dbName) ==
    [form |-> "list",
     port |-> al.Port,
     instance |-> "",
     parameters |-> <<<<"database", dbName>>>> \o ExtraParameters(al)
                      \o Encrypt(al, IF al.CertificateLocation = "" THEN << >> ELSE Certificate(al))]

isAzureADServicePrincipalAuth(al) ==
    al.ClientID # "" /\ al.TenantID # "" /\ al.ClientSecret # ""

\* createConnectionWithAuth, for either kind of connector.
ConnectionString(al, dbName) ==
    IF isAzureADServicePrincipalAuth(al)
    THEN CreateAzureADConnectionURL(al, dbName)
    ELSE CreateConnectionURL(al, dbName)

-----------------------------------------------------------------------------
(* The driver.  It refuses a URL with two values under one spelling of a   *)
(* name, lowers the names after that, and keeps one value for each: of the *)
(* names of a URL, which it goes over in the order of a map, any; of a     *)
(* list the last.                                                          *)

DriverAccepts(string) ==
    string.form = "URL" =>
        \A i, j \in DOMAIN string.parameters :
            string.parameters[i][1] = string.parameters[j][1] => i = j

Mentions(string, key) ==
    {i \in DOMAIN string.parameters : ToLower[string.parameters[i][1]] = key}

\* The values the driver may take a parameter to have, none if it is absent.
Effective(string, key) ==
    {string.parameters[i][2] :
        i \in {k \in Mentions(string, key) :
                  string.form = "list" => \A j \in Mentions(string, key) : j <= k}}

-----------------------------------------------------------------------------
\* With SSL the server's certificate is trusted because the user said so, or
\* it is checked against the file the user named.
Secured(al, dbName) ==
    LET string == ConnectionString(al, dbName)
    IN  al.EnableSSL =>
            /\ Effective(string, "encrypt") = {"true"}
            /\ \/ al.TrustServerCertificate
               \/ /\ Effective(string, "trustservercertificate") = {"false"}
                  /\ Effective(string, "certificate") = {al.CertificateLocation}
                  /\ al.CertificateLocation # ""

\* An extra argument has the name of an SSL setting, in other letters than the
\* code writes it with.
SSLSettings == {"encrypt", "TrustServerCertificate", "certificate"}

Respelled(al) ==
    \E i \in DOMAIN ExtraParameters(al) :
        LET name == ExtraParameters(al)[i][1]
        IN  /\ name \notin SSLSettings
            /\ \E setting \in SSLSettings : ToLower[name] = ToLower[setting]

\* The driver's own default for a string without a port, and no instance, is
\* 1433.
DefaultPort(al, dbName) ==
    LET string == ConnectionString(al, dbName)
    IN  al.Port = "" /\ al.Instance = "" =>
            string.port \in {Absent, "1433"} /\ string.instance = ""
=============================================================================
