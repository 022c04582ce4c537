SPECIFICATION IngressSpec
CONSTANTS
    Requests <- MCAllRequests
    WebhookOptions <- MCWebhook
    Named <- MCNamed
    Endpoints <- MCEndpoints
    MailOptions <- MCMail
    Mails <- MCMails
    MaxNonces = 2
    Minute = 2
    MaxClock = 3
    IngressBudgets <- MCQuotas
INVARIANT QueuedKeepsItsFile
CHECK_DEADLOCK FALSE
