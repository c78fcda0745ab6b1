\* The run ends with the task's last step.
SPECIFICATION FairSpec
CHECK_DEADLOCK FALSE
CONSTANTS
    Calls = {mailA, mailB, domainA, note}
    mailA = mailA  mailB = mailB  domainA = domainA  note = note
    ToolOf <- MCTools
    Gated = {mailA, mailB}
    Denied = {note}
    Priced = {domainA}
    External = {mailA, mailB}
    Script <- Singly
    Recall = 2
    MaxOthers = 2
    MaxDecisions = 3
    MaxSent = 3
    MaxInterrupts = 1
    Scenarios = {{"late_answer"},
                 {"interrupted"},
                 {"over_budget", "bungled", "late_answer"},
                 {"interrupted", "over_budget", "bungled"},
                 {"batches", "interrupted"},
                 {"others_declined"},
                 {"strays"}}
INVARIANTS EveryGatedCallApproved NotRedone IndexComplete
PROPERTIES  ApprovalIsUsed
