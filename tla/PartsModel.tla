----------------------------- MODULE PartsModel -----------------------------
(***************************************************************************)
(* The instance TLC checks of five components that share no state: the     *)
(* ingress of webhooks, mail and queues, the plugin host, the bootstrap,   *)
(* the browser tools and the remote tools.  A behaviour is a behaviour of  *)
(* one of them; the others stay in one of their initial states.            *)
(***************************************************************************)
EXTENDS IngressModel, PluginsModel, BootModel, BrowserModel, RemoteModel

VARIABLE part      \* the component this behaviour is one of

partsVars == <<part, ingressVars, pluginVars, bootVars, browserVars, remoteVars>>

PartsInit ==
    /\ part \in {"ingress", "plugins", "boot", "browser", "remote"}
    /\ IngressInit /\ PluginInit /\ BootInit /\ BrowserInit /\ RemoteInit
    /\ part # "ingress" => quota = CHOOSE q \in IngressBudgets : TRUE
    /\ part # "boot" => boot.kind = "daemon" /\ cfg = Plain
    /\ part # "browser" => allowed = CHOOSE b \in BrowserBudgets : TRUE
    /\ part # "remote" => left = CHOOSE b \in RemoteBudgets : TRUE

PartsNext ==
    /\ UNCHANGED part
    /\ \/ /\ part = "ingress" /\ IngressNext
          /\ UNCHANGED <<pluginVars, bootVars, browserVars, remoteVars>>
       \/ /\ part = "plugins" /\ PluginNext
          /\ UNCHANGED <<ingressVars, bootVars, browserVars, remoteVars>>
       \/ /\ part = "boot" /\ BootNext
          /\ UNCHANGED <<ingressVars, pluginVars, browserVars, remoteVars>>
       \/ /\ part = "browser" /\ BrowserNext
          /\ UNCHANGED <<ingressVars, pluginVars, bootVars, remoteVars>>
       \/ /\ part = "remote" /\ RemoteNext
          /\ UNCHANGED <<ingressVars, pluginVars, bootVars, browserVars>>

PartsSpec == PartsInit /\ [][PartsNext]_partsVars
=============================================================================
