----------------------------- MODULE MCLifecycle -----------------------------
(* Lifecycle with the command lines and servers that differ in what main, the *)
(* connection strings and the preconditions look at.                          *)
EXTENDS Lifecycle

Default ==
    [Hostname |-> "host", Port |-> "", Instance |-> "",
     EnableSSL |-> FALSE, TrustServerCertificate |-> FALSE, CertificateLocation |-> "",
     ClientID |-> "", TenantID |-> "", ClientSecret |-> "",
     CustomMetricsQuery |-> "", CustomMetricsConfig |-> "",
     ExtraConnectionURLArgs |-> << >>, ShowVersion |-> FALSE,
     Inventory |-> FALSE, Metrics |-> FALSE, Events |-> FALSE,
     EnableQueryMonitoring |-> FALSE,
     QueryMonitoringDisableHistoricalInformation |-> FALSE]

Monitored == [Default EXCEPT !.EnableQueryMonitoring = TRUE]

AzureAD(line) ==
    [line EXCEPT !.ClientID = "id", !.TenantID = "tenant", !.ClientSecret = "secret"]

Quiet == [Default EXCEPT !.Events = TRUE]    \* nothing to collect, only connect

\* No argument, an SSL setting as the code spells it, in other letters, and in
\* both, and a text that cannot be parsed.
ExtraArguments ==
    {<< >>, <<<<"encrypt", "disable">>>>, <<<<"TrustServerCertificate", "true">>>>,
     <<<<"Encrypt", "disable">>>>,
     <<<<"Encrypt", "disable">>, <<"trustservercertificate", "true">>>>, Unparsable}

LowerCase ==
    [name \in {"database", "encrypt", "certificate", "TrustServerCertificate", "Encrypt",
               "trustservercertificate"} |->
        CASE name = "Encrypt" -> "encrypt"
          [] name = "TrustServerCertificate" -> "trustservercertificate"
          [] OTHER -> name]

\* Host, port, instance, authentication and SSL in every combination.
Connecting ==
    LET lines == {[Quiet EXCEPT !.Hostname = host, !.Port = port, !.Instance = instance,
                         !.EnableSSL = ssl, !.TrustServerCertificate = trust,
                         !.CertificateLocation = certificate,
                         !.ExtraConnectionURLArgs = extra] :
                    host \in {"host", ""}, port \in {"", "1444"}, instance \in {"", "name"},
                    ssl \in BOOLEAN, trust \in BOOLEAN, certificate \in {"", "cert.pem"},
                    extra \in ExtraArguments}
    IN  lines \union {AzureAD(line) : line \in lines}
          \union {[AzureAD(line) EXCEPT !.ClientSecret = ""] : line \in lines}

CustomLines ==
    {[Quiet EXCEPT !.CustomMetricsQuery = query, !.CustomMetricsConfig = config] :
        query \in {"", "SELECT"}, config \in {"", "queries.yml", "missing.yml"}}

\* What is collected.
Collecting ==
    {[Default EXCEPT !.Inventory = inv, !.Metrics = met, !.ShowVersion = version] :
        inv \in BOOLEAN, met \in BOOLEAN, version \in BOOLEAN}

Monitors ==
    {[Monitored EXCEPT !.QueryMonitoringDisableHistoricalInformation = dmv, !.Events = only] :
        dmv \in BOOLEAN, only \in BOOLEAN}

CommandLines == Connecting \union CustomLines \union Collecting \union Monitors

UserDatabase(id, level) == [id |-> id, level |-> level]
SystemDatabase == [id |-> 4, level |-> 80]

OnPremises(major) ==
    [azure |-> FALSE, mentionsAzure |-> FALSE, major |-> major, edition |-> 3,
     databases |-> {SystemDatabase, UserDatabase(5, 100)},
     sysadmin |-> FALSE, viewServerState |-> TRUE]

Azure ==
    [OnPremises(12) EXCEPT !.azure = TRUE, !.mentionsAzure = TRUE, !.edition = 5]

SomeServers ==
    {OnPremises(14), OnPremises(13), OnPremises(12), Azure,
     [Azure EXCEPT !.major = 11],
     [OnPremises(14) EXCEPT !.major = NoVersion],
     [OnPremises(14) EXCEPT !.viewServerState = FALSE],
     [OnPremises(14) EXCEPT !.databases = {SystemDatabase, UserDatabase(5, 100), UserDatabase(6, 90)}]}

\* SQL Server 2016 on Windows Server 2022 Datacenter: Azure Edition.
OnAzureEdition == {[OnPremises(13) EXCEPT !.mentionsAzure = TRUE]}
QueryStoreLine == {[Monitored EXCEPT !.Events = TRUE]}

\* Neither port nor instance.
DefaultLines == {Quiet, AzureAD(Quiet)}
=============================================================================
