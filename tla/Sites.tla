------------------------------- MODULE Sites -------------------------------
(***************************************************************************)
(* The domains of a host: what install.sh's config, install, update and    *)
(* uninstall commands do to INSTALL_CONF, .env, the site of nginx, the     *)
(* certificates of certbot and the copies the engines read; while certbot  *)
(* renews by itself, and commands stop between any two of their steps.     *)
(*                                                                         *)
(* A host has two names: the panel's, which names the certificate, and the *)
(* one of its clients.  The base domain and the subscription's host are    *)
(* written and certified together with the second.                         *)
(***************************************************************************)
EXTENDS Naturals, Sequences

CONSTANTS
  Hosts,       \* host names; "ip" stands for the address, and for a name not given
  MaxCommands  \* bound on the commands begun

ASSUME HostsAssumption == "ip" \notin Hosts

VARIABLES
  installed,  \* "no", "partial" or "yes"
  packages,   \* nginx and certbot are there
  conf,       \* INSTALL_CONF: role, mode, panel, vpn
  envFile,    \* .env: the addresses of the panel and of its clients
  up,         \* those the containers were started with
  site,       \* the site on disk
  loaded,     \* what nginx serves
  issued,     \* the names each certificate of certbot covers, none if there is none
  cert, key,  \* the engines' copies: of which certificate, and whether of its latest issue
  hook,       \* the certificate the renewal hook copies
  doing,      \* the command that runs, and the steps it has left
  ended,      \* the last command, if it ran to its end
  begun       \* commands begun so far

siteVars == <<installed, packages, conf, envFile, up, site, loaded, issued, cert, key, hook,
              doing, ended, begun>>

AllHosts == Hosts \union {"ip"}
NoConf == [role |-> "panel", mode |-> "ip", panel |-> "ip", vpn |-> "ip"]
NoSite == [names |-> {}, of |-> "ip", tls |-> FALSE]
NoFile == [of |-> "none", current |-> FALSE]
SelfSigned == [of |-> "ip", current |-> TRUE]
Copy(h) == [of |-> h, current |-> TRUE]
Resting == [cmd |-> "none", left |-> <<>>]
Ip == [panel |-> "ip", vpn |-> "ip"]

SitesInit ==
  /\ installed = "no" /\ packages = FALSE
  /\ conf = NoConf /\ envFile = Ip /\ up = Ip
  /\ site = NoSite /\ loaded = NoSite
  /\ issued = [h \in Hosts |-> {}]
  /\ cert = NoFile /\ key = NoFile /\ hook = "none"
  /\ doing = Resting /\ ended = "none" /\ begun = 0

\* Steps; what a command has read of its options or of INSTALL_CONF goes with them.
Do(what) == [do |-> what]
Set(file, name, value) == [do |-> file, name |-> name, value |-> value]
SetPair(file, hosts) == <<Set(file, "panel", hosts.panel), Set(file, "vpn", hosts.vpn)>>
Of(what, h) == [do |-> what, of |-> h]

Names(c) == {c.panel, c.vpn} \ {"ip"}
Site(c, tls) == [names |-> Names(c), of |-> c.panel, tls |-> tls]
Certificate(h) == IF h \in Hosts THEN issued[h] ELSE {}
Broken(s) == s.tls /\ Certificate(s.of) = {}
NamesKnown == conf.mode = "domain" /\ {conf.panel, conf.vpn} \subseteq Hosts
HasFiles == NoFile \notin {cert, key}

-----------------------------------------------------------------------------
(* Functions of the script, as the steps they take.                        *)

\* sync_domains_from_install_conf
Sync(c) == SetPair("env", IF c.mode = "domain" THEN c ELSE Ip)

\* sync_vpn_tls_certs, of a certificate that is there
Copied(h) == <<Of("cert", h), Of("key", h), Of("hook", h)>>

\* install_nginx
InstallNginx(c) ==
  <<Do("packages"), [do |-> "site", tls |-> FALSE], Do("load"), Do("issue"),
    [do |-> "site", tls |-> TRUE], Do("load")>> \o Copied(c.panel)

\* Mutant: the copies of the engines are left to the renewal hook.
RefreshedSites(c) ==
  IF NamesKnown THEN <<Do("issue"), [do |-> "site", tls |-> TRUE], Do("load"), Of("hook", c.panel)>>
  ELSE <<>>

\* refresh_nginx; hosts that are missing are only warned of.
Refreshed(c) ==
  IF NamesKnown
  THEN <<Do("issue"), [do |-> "site", tls |-> TRUE], Do("load")>> \o Copied(c.panel)
  ELSE <<>>

\* resolve_proxy_vpn_host
VpnHost == IF conf.vpn \in Hosts THEN conf.vpn ELSE envFile.vpn

\* issue_proxy_vpn_tls_certs
Issued(h) == <<Of("standalone", h)>> \o Copied(h)

\* Mutant: a certificate that is there is not copied again.
EnsuredOnce ==
  LET h == VpnHost
  IN  IF h \notin Hosts THEN <<Do("self-signed")>>
      ELSE <<Set("conf", "vpn", h), Set("env", "vpn", h)>> \o
           (IF HasFiles THEN <<Of("hook", h)>> ELSE Issued(h))

\* ensure_proxy_vpn_tls: files that are there are kept, of whatever they are.
Ensured ==
  LET h == VpnHost
  IN  IF h \notin Hosts THEN <<Do("self-signed")>>
      ELSE <<Set("conf", "vpn", h), Set("env", "vpn", h)>> \o
           (IF ~HasFiles THEN Issued(h)
            ELSE IF issued[h] # {} THEN Copied(h) ELSE <<Of("hook", h)>>)

-----------------------------------------------------------------------------
(* Commands.                                                               *)

Begin(cmd, steps) ==
  /\ doing = Resting /\ begun < MaxCommands
  /\ begun' = begun + 1
  /\ doing' = [cmd |-> cmd, left |-> steps]
  /\ ended' = "none"
  /\ UNCHANGED <<installed, packages, conf, envFile, up, site, loaded, issued, cert, key, hook>>

\* ensure_clean_for_install
Cleaned == IF installed = "partial" THEN <<Do("no site"), Do("wipe")>> ELSE <<>>

\* generate_env writes .env, the self-signed files of a host without domain, and INSTALL_CONF.
Install(c, nginx) ==
  /\ installed # "yes" /\ c.role = "panel" /\ (nginx => c.mode = "domain")
  /\ Begin(IF nginx THEN "install" ELSE "install without nginx",
       Cleaned \o <<Do("partial")>> \o Sync(c)
       \o (IF c.mode = "ip" THEN <<Do("self-signed")>> ELSE <<>>)
       \o <<[do |-> "write conf", conf |-> c], Do("up")>>
       \o (IF nginx THEN InstallNginx(c) ELSE <<>>) \o <<Do("complete")>>)

InstallProxy(c) ==
  /\ installed # "yes" /\ c.role = "proxy" /\ c.mode = "ip" /\ c.panel = "ip"
  /\ Begin("install",
       Cleaned \o <<Do("partial")>> \o Sync(c)
       \o <<Do("self-signed"), [do |-> "write conf", conf |-> c]>>
       \o (IF c.vpn \in Hosts THEN <<Set("env", "vpn", c.vpn)>> ELSE <<>>)
       \o <<Do("ensure"), Do("up"), Do("complete")>>)

Update ==
  /\ installed = "yes"
  /\ Begin("update",
       IF conf.role = "panel" THEN Sync(conf) \o <<Do("up")>> \o Refreshed(conf)
       ELSE Sync(conf) \o <<Do("ensure"), Do("up")>>)

ConfigSync == installed = "yes" /\ Begin("sync", Sync(conf))

\* The name of a proxy's clients alone, or all names of a panel.
SetDomain(hosts) ==
  /\ installed = "yes" /\ hosts.vpn \in Hosts
  /\ IF conf.role = "proxy"
     THEN /\ hosts.panel = "ip"
          /\ Begin("set-domain", <<Set("conf", "vpn", hosts.vpn), Set("env", "vpn", hosts.vpn)>>)
     ELSE /\ hosts.panel \in Hosts
          /\ Begin("set-domain", <<Set("conf", "mode", "domain")>>
                                 \o SetPair("conf", hosts) \o SetPair("env", hosts))

ConfigNginx ==
  /\ installed = "yes" /\ conf.mode = "domain"
  /\ Begin("nginx", <<[do |-> "site", tls |-> TRUE], Do("load")>>)

\* On a panel the engines' copies stay as they are.
ConfigCerts ==
  /\ installed = "yes"
  /\ IF conf.role = "panel" THEN NamesKnown /\ Begin("certs", <<Do("issue")>>)
     ELSE LET h == VpnHost
          IN  h \in Hosts
              /\ Begin("certs", <<Set("conf", "vpn", h), Set("env", "vpn", h)>> \o Issued(h))

ConfigApply ==
  installed = "yes" /\ Begin("apply", Sync(conf) \o Refreshed(conf) \o <<Do("up")>>)

Uninstall(purge) ==
  /\ installed # "no"
  /\ Begin("uninstall",
       <<Do("no site")>> \o (IF purge THEN <<Do("no certificates")>> ELSE <<>>) \o <<Do("wipe")>>)

-----------------------------------------------------------------------------
(* Their steps.                                                            *)

Due(what) == doing.left # <<>> /\ Head(doing.left).do = what
Arg == Head(doing.left)
Done == doing' = [doing EXCEPT !.left = Tail(@)] /\ UNCHANGED <<ended, begun>>

MarkPartial ==
  /\ Due("partial") /\ Done /\ installed' = "partial"
  /\ UNCHANGED <<packages, conf, envFile, up, site, loaded, issued, cert, key, hook>>

SetEnvVar ==
  /\ Due("env") /\ Done
  /\ envFile' = [envFile EXCEPT ![Arg.name] = Arg.value]
  /\ UNCHANGED <<installed, packages, conf, up, site, loaded, issued, cert, key, hook>>

SetInstallConfVar ==
  /\ Due("conf") /\ Done
  /\ conf' = [conf EXCEPT ![Arg.name] = Arg.value]
  /\ UNCHANGED <<installed, packages, envFile, up, site, loaded, issued, cert, key, hook>>

WriteConf ==
  /\ Due("write conf") /\ Done /\ conf' = Arg.conf
  /\ UNCHANGED <<installed, packages, envFile, up, site, loaded, issued, cert, key, hook>>

SelfSign ==
  /\ Due("self-signed") /\ Done
  /\ IF HasFiles THEN UNCHANGED <<cert, key>> ELSE cert' = SelfSigned /\ key' = SelfSigned
  /\ UNCHANGED <<installed, packages, conf, envFile, up, site, loaded, issued, hook>>

ComposeUp ==
  /\ Due("up") /\ Done /\ up' = envFile
  /\ UNCHANGED <<installed, packages, conf, envFile, site, loaded, issued, cert, key, hook>>

InstallPackages ==
  /\ Due("packages") /\ Done /\ packages' = TRUE
  /\ UNCHANGED <<installed, conf, envFile, up, site, loaded, issued, cert, key, hook>>

WriteSite ==
  /\ Due("site") /\ Done /\ site' = Site(conf, Arg.tls)
  /\ UNCHANGED <<installed, packages, conf, envFile, up, loaded, issued, cert, key, hook>>

\* nginx -t before the reload; if it fails the command stops here.
LoadSite ==
  /\ Due("load") /\ Done /\ packages /\ ~Broken(site)
  /\ loaded' = site
  /\ UNCHANGED <<installed, packages, conf, envFile, up, site, issued, cert, key, hook>>

\* An issue makes the copies of the one before it old.
Reissued(h, names) ==
  /\ issued' = [issued EXCEPT ![h] = names]
  /\ cert' = [cert EXCEPT !.current = @ /\ cert.of # h]
  /\ key' = [key EXCEPT !.current = @ /\ key.of # h]

\* certbot --nginx needs a configuration nginx accepts; in the course of an installation it
\* puts the certificate into the site itself.  A certificate of just these names is kept.
IssueCertificates ==
  /\ Due("issue") /\ Done /\ packages /\ ~Broken(site)
  /\ IF issued[conf.panel] = Names(conf) THEN UNCHANGED <<issued, cert, key>>
     ELSE Reissued(conf.panel, Names(conf))
  /\ IF doing.cmd = "install" THEN site' = Site(conf, TRUE) /\ loaded' = site'
     ELSE UNCHANGED <<site, loaded>>
  /\ UNCHANGED <<installed, packages, conf, envFile, up, hook>>

IssueStandalone ==
  /\ Due("standalone") /\ Done
  /\ IF issued[Arg.of] # {} THEN UNCHANGED <<issued, cert, key>> ELSE Reissued(Arg.of, {Arg.of})
  /\ UNCHANGED <<installed, packages, conf, envFile, up, site, loaded, hook>>

CopyCert ==
  /\ Due("cert") /\ Done /\ cert' = Copy(Arg.of)
  /\ UNCHANGED <<installed, packages, conf, envFile, up, site, loaded, issued, key, hook>>

CopyKey ==
  /\ Due("key") /\ Done /\ key' = Copy(Arg.of)
  /\ UNCHANGED <<installed, packages, conf, envFile, up, site, loaded, issued, cert, hook>>

InstallHook ==
  /\ Due("hook") /\ Done /\ hook' = Arg.of
  /\ UNCHANGED <<installed, packages, conf, envFile, up, site, loaded, issued, cert, key>>

EnsureProxyTls ==
  /\ Due("ensure") /\ UNCHANGED <<ended, begun>>
  /\ doing' = [doing EXCEPT !.left = Ensured \o Tail(@)]
  /\ UNCHANGED <<installed, packages, conf, envFile, up, site, loaded, issued, cert, key, hook>>

RemoveSite ==
  /\ Due("no site") /\ Done
  /\ site' = NoSite /\ loaded' = NoSite /\ hook' = "none"
  /\ UNCHANGED <<installed, packages, conf, envFile, up, issued, cert, key>>

\* Only those of the names INSTALL_CONF has now.
DeleteCertificates ==
  /\ Due("no certificates") /\ Done
  /\ issued' = [h \in Hosts |-> IF h \in Names(conf) THEN {} ELSE issued[h]]
  /\ UNCHANGED <<installed, packages, conf, envFile, up, site, loaded, cert, key, hook>>

\* APP_DIR holds the copies of the engines as well.
Wipe ==
  /\ Due("wipe") /\ Done
  /\ installed' = "no" /\ conf' = NoConf /\ envFile' = Ip /\ up' = Ip
  /\ cert' = NoFile /\ key' = NoFile
  /\ UNCHANGED <<packages, site, loaded, issued, hook>>

MarkComplete ==
  /\ Due("complete") /\ Done /\ installed' = "yes"
  /\ UNCHANGED <<packages, conf, envFile, up, site, loaded, issued, cert, key, hook>>

End ==
  /\ doing # Resting /\ doing.left = <<>>
  /\ doing' = Resting /\ ended' = doing.cmd
  /\ UNCHANGED <<begun, installed, packages, conf, envFile, up, site, loaded, issued, cert, key, hook>>

\* A step fails (certbot's, for one), or somebody stops the command.
Stop ==
  /\ doing # Resting /\ doing' = Resting /\ UNCHANGED <<ended, begun>>
  /\ UNCHANGED <<installed, packages, conf, envFile, up, site, loaded, issued, cert, key, hook>>

-----------------------------------------------------------------------------
(* What happens between commands.                                          *)

\* certbot renews and runs the hook.
Renew(h) ==
  /\ doing = Resting /\ issued[h] # {}
  /\ IF Certificate(hook) # {}
     THEN cert' = Copy(hook) /\ key' = Copy(hook) /\ UNCHANGED issued
     ELSE Reissued(h, issued[h])
  /\ UNCHANGED <<installed, packages, conf, envFile, up, site, loaded, hook, doing, ended,
                 begun>>

\* nginx does not start with a site it refuses.
Reboot ==
  /\ doing = Resting
  /\ loaded' = IF Broken(site) THEN NoSite ELSE site
  /\ UNCHANGED <<installed, packages, conf, envFile, up, site, issued, cert, key, hook, doing, ended,
                 begun>>

Confs == [role: {"panel", "proxy"}, mode: {"ip", "domain"}, panel: AllHosts, vpn: AllHosts]
Given(c) == IF c.mode = "domain" THEN {c.panel, c.vpn} \subseteq Hosts
            ELSE c.panel = "ip" /\ (c.role = "panel" => c.vpn = "ip")

SitesNext ==
  \/ \E c \in Confs : Given(c) /\ (InstallProxy(c) \/ \E nginx \in BOOLEAN : Install(c, nginx))
  \/ \E panel, vpn \in AllHosts : SetDomain([panel |-> panel, vpn |-> vpn])
  \/ Update \/ ConfigSync \/ ConfigNginx \/ ConfigCerts \/ ConfigApply
  \/ \E purge \in BOOLEAN : Uninstall(purge)
  \/ MarkPartial \/ SetEnvVar \/ SetInstallConfVar \/ WriteConf \/ SelfSign \/ ComposeUp
  \/ InstallPackages \/ WriteSite \/ LoadSite \/ IssueCertificates \/ IssueStandalone
  \/ CopyCert \/ CopyKey \/ InstallHook \/ EnsureProxyTls
  \/ RemoveSite \/ DeleteCertificates \/ Wipe \/ MarkComplete \/ End \/ Stop
  \/ \E h \in Hosts : Renew(h)
  \/ Reboot

SitesSpec == SitesInit /\ [][SitesNext]_siteVars

-----------------------------------------------------------------------------
(***************************************************************************)
(* Whatever was begun and not finished before: once a command has put the  *)
(* names into effect (install, update, config apply; on a proxy config     *)
(* certs, and update if there is a certificate), nginx serves them with a  *)
(* certificate for all of them, the panel announces them, and the engines  *)
(* have the certificate and its key; and renewals and reboots keep it so.  *)
(***************************************************************************)
EnginesHave(h) == cert = Copy(h) /\ key = Copy(h) /\ hook = h

AppliedIsServed ==
  /\ conf.role = "panel" /\ ended \in {"install", "update", "apply"} /\ NamesKnown =>
       /\ loaded = Site(conf, TRUE) /\ Names(conf) \subseteq issued[conf.panel]
       /\ envFile = [panel |-> conf.panel, vpn |-> conf.vpn] /\ up = envFile
       /\ EnginesHave(conf.panel)
  /\ conf.role = "proxy" /\ conf.vpn \in Hosts
     /\ (ended = "certs" \/ (ended \in {"install", "update"} /\ issued[conf.vpn] # {})) =>
       envFile.vpn = conf.vpn /\ EnginesHave(conf.vpn)

=============================================================================
