\* The run ends with the task's last step.
SPECIFICATION Spec
CHECK_DEADLOCK FALSE
CONSTANTS
    Calls = {mailA, mailB, domainA, note}
    mailA = mailA  mailB = mailB  domainA = domainA  note = note
    ToolOf <- MCTools
    Gated = {mailA, mailB, domainA}
    Denied = {}
    Priced = {domainA}
    External = {mailA, mailB}
    Script <- AfterNote
    Recall = 2
    MaxOthers = 2
    MaxDecisions = 2
    MaxSent = 2
    MaxInterrupts = 0
    Scenarios = {{}}
INVARIANT DoneOnce
