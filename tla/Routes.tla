------------------------------- MODULE Routes -------------------------------
(***************************************************************************)
(* What the bridge answers over HTTP, and which names it knows.  Each      *)
(* section below is a stretch of a routes file: its endpoints, by how they *)
(* are served, under the action names of their audit lines.                *)
(*   logged     answered at once, one line; refused: an error, no line     *)
(*   told       answered at once, one line; refused: a line that says so   *)
(*   unlogged   answered at once, no line                                  *)
(*   queued     registered for approval whatever the body says             *)
(*   vetted     something is looked up or checked first; refused: no line  *)
(*   previewed  the preview may refuse it; refused: a line that says so    *)
(*   guarded    vetted, then previewed                                     *)
(*   direct     acts at once (the workflow endpoints: see WorkflowManager) *)
(***************************************************************************)
EXTENDS Naturals

-----------------------------------------------------------------------------
(* main.py                                                                 *)
SystemRoutes ==
  [unlogged |-> {"health", "system_health", "dashboard", "agent_profile_history"},
   logged |-> {"agent_profile_ranking_read", "agent_profile_read", "demo_catalog_read",
               "demo_flow_read", "replay_list_read", "replay_read", "artifact_list_read",
               "models_read", "model_capabilities_read"},
   queued |-> {"demo_scenario_create", "replay_create", "artifact_export"}]
ContextRoutes ==
  [logged |-> {"context_project", "context_search", "model_route", "agent_status"}]
RuntimeRoutes ==
  [logged |-> {"runtime_status", "runtime_events", "agent_runtime_status", "agent_runtime_state",
               "task_list", "task_dependencies_read", "task_read", "quality_read"},
   queued |-> {"runtime_create", "task_create"},
   vetted |-> {"task_transition"}]
TeamRoutes ==
  [logged |-> {"team_list", "team_read", "collaboration_events_read", "conflict_read",
               "agent_metrics_read", "context_bundle"},
   vetted |-> {"team_create"}]
InsightRoutes ==
  [logged |-> {"intelligence_insights_read", "intelligence_proposals_read",
               "intelligence_decision_read", "quality_gate_v5_read"},
   queued |-> {"intelligence_analyze"},
   vetted |-> {"intelligence_decision_create"}]
SimulationRoutes ==
  [logged |-> {"simulation_read", "simulation_scenarios_read", "simulation_evaluation_read",
               "quality_gate_v6_read"},
   queued |-> {"simulation_create"},
   vetted |-> {"simulation_analyze", "simulation_plan"}]
TrialRoutes ==
  [logged |-> {"validation_reference_read", "validation_list_read", "validation_read",
               "reporting_generate_read", "production_readiness", "benchmark_list_read",
               "benchmark_results_read", "benchmark_read"},
   queued |-> {"validation_create", "validation_run_record", "benchmark_create"},
   vetted |-> {"validation_transition", "benchmark_transition"}]
TimelineRoutes ==
  [logged |-> {"engineering_graph_read", "engineering_graph_query", "failure_intelligence_read",
               "evolution_timeline_read", "agent_capability_metrics_read",
               "engineering_agent_metrics_read"},
   queued |-> {"engineering_graph_rebuild", "evolution_timeline_append"}]
LoopRoutes ==
  [logged |-> {"execution_dag_list_read", "execution_dag_read", "execution_dag_ready_read",
               "execution_loop_context_read", "engineering_metrics_read",
               "execution_loop_list_read", "execution_loop_read"},
   vetted |-> {"execution_dag_create", "execution_dag_advance", "execution_loop_recover",
               "execution_loop_create", "execution_loop_prepare", "execution_loop_verify",
               "execution_loop_rollback"}]
ExecutionRoutes ==
  [logged |-> {"execution_loop_timeline_read", "quality_gate_v8_read", "planning_memory_history",
               "execution_tasks_read", "execution_task_read", "execution_proposals_read"},
   vetted |-> {"execution_create", "execution_proposal"}]
ResultRoutes ==
  [logged |-> {"execution_proposal_read", "execution_results_read", "execution_verify_read",
               "quality_gate_v7_read", "execution_memory_history", "code_search",
               "code_symbol_read", "project_profile_read", "project_graph_read",
               "impact_analyze", "context_query"},
   vetted |-> {"execution_execute"},
   previewed |-> {"code_index"}]
FileRoutes ==
  [logged |-> {"project_memory_history", "quality_gate_v4_read", "workspace_list"},
   told |-> {"project_tree", "file_read"},
   previewed |-> {"project_memory_append", "file_create"}]
MemoryRoutes ==
  [logged |-> {"memory_list"},
   told |-> {"memory_read"},
   queued |-> {"memory_init"},
   previewed |-> {"file_write", "patch_apply"}]
DecisionRoutes ==
  [unlogged |-> {"permission_pending"},
   previewed |-> {"memory_append"},
   guarded |-> {"memory_decision"}]
ToolRoutes ==
  [told |-> {"git_status", "git_diff"},
   guarded |-> {"git_commit", "test_run", "workflow_rollback"}]
SessionRoutes ==
  [unlogged |-> {"session_list", "session_detail"},
   vetted |-> {"session_create", "session_transition"}]
AgentRoutes ==
  [vetted |-> {"agent_create", "agent_transition", "agent_message"}]
WorkflowRoutes ==
  [unlogged |-> {"workflow_list", "workflow_detail"},
   direct |-> {"workflow_create", "workflow_stage_start", "workflow_stage_report",
               "workflow_stage_attach"},
   vetted |-> {"workflow_agent_attach", "quality_gate_submit"}]
StageRoutes ==
  [unlogged |-> {"audit_log"}, direct |-> {"workflow_stage_await", "workflow_cancel"}]

(* governance/routes.py and intelligence/governance/routes.py              *)
GovernanceRoutes ==
  [logged |-> {"governance_health_read", "governance_drift_read", "governance_debt_read",
               "governance_policies_read"},
   queued |-> {"governance_debt_create", "governance_policy_evaluate"},
   vetted |-> {"governance_debt_transition"}]
GovernanceTimelineRoutes ==
  [logged |-> {"governance_timeline_read", "quality_gate_v9_read"},
   previewed |-> {"governance_memory_append"}]
JudgementRoutes ==
  [logged |-> {"intelligence_governance_risk_read", "intelligence_governance_trends_read",
               "intelligence_governance_policies_read", "intelligence_governance_violations_read",
               "intelligence_governance_reviews_read"},
   vetted |-> {"intelligence_governance_evaluate", "intelligence_governance_review"}]
JudgedRoutes ==
  [logged |-> {"intelligence_governance_quality_gate_read", "intelligence_governance_graph_read",
               "intelligence_governance_read", "intelligence_governance_detail_read",
               "quality_gate_v14_read"}]

(* intelligence/routes.py and intelligence/validation/routes.py            *)
ObservationRoutes ==
  [logged |-> {"intelligence_observations_read", "intelligence_patterns_read",
               "intelligence_predictions_read", "intelligence_recommendations_read",
               "intelligence_decisions_read", "intelligence_outcomes_read"},
   queued |-> {"intelligence_pattern_analyze", "intelligence_prediction_analyze"},
   vetted |-> {"intelligence_observation_record"}]
EvidenceRoutes ==
  [logged |-> {"intelligence_knowledge_read", "intelligence_evidence_read",
               "intelligence_evidence_graph_read", "intelligence_decision_evidence_read",
               "intelligence_quality_read"},
   queued |-> {"intelligence_evidence_bundle"},
   vetted |-> {"intelligence_outcome_record"},
   previewed |-> {"intelligence_knowledge_append"}]
TrendRoutes ==
  [logged |-> {"quality_gate_v11_read", "intelligence_trends_read",
               "intelligence_correlations_read", "intelligence_impact_read",
               "intelligence_dependencies_read", "intelligence_evaluations_read",
               "intelligence_recommendation_ranking_read"}]
EvaluationRoutes ==
  [logged |-> {"intelligence_evaluation_read", "intelligence_accuracy_read",
               "intelligence_evaluations_read", "intelligence_effectiveness_read",
               "intelligence_decision_outcomes_read", "intelligence_benchmarks_read"},
   vetted |-> {"intelligence_evaluation_record", "intelligence_benchmark_run"}]
ImprovementRoutes ==
  [logged |-> {"intelligence_benchmark_read", "intelligence_knowledge_improvements_read",
               "intelligence_validation_read", "quality_gate_v13_read"},
   vetted |-> {"intelligence_knowledge_improvement"}]

(* organization, organization_strategy and organization_graph              *)
OrganizationRoutes ==
  [logged |-> {"organization_graph_read", "organization_incidents_read",
               "organization_decisions_read", "organization_patterns_read",
               "organization_patterns_search_read"},
   queued |-> {"organization_incident_create", "organization_decision_create",
               "organization_pattern_create"},
   vetted |-> {"organization_entity_register"}]
LearningRoutes ==
  [logged |-> {"organization_learning_read", "organization_health_read",
               "organization_dashboard_read", "quality_gate_v10_read"},
   queued |-> {"organization_learning_scan"}]
StrategyReads ==
  [logged |-> {"organization_impact_read", "organization_risk_read",
               "organization_strategies_read", "organization_strategy_read",
               "organization_decision_read", "organization_simulation_read",
               "organization_recommendations_read", "organization_context_read"}]
StrategyRoutes ==
  [queued |-> {"organization_strategy_create", "organization_strategy_evaluate",
               "organization_strategy_decision_create",
               "organization_strategy_decision_transition"},
   vetted |-> {"organization_memory_append"}]
OrgGraphRoutes ==
  [logged |-> {"organization_graph_ancestors_read", "organization_graph_descendants_read",
               "organization_graph_owner_read", "organization_graph_impact_read",
               "organization_graph_context_read", "organization_graph_snapshot_list_read"},
   queued |-> {"organization_graph_sync", "organization_graph_snapshot_create"},
   vetted |-> {"organization_graph_snapshot_restore"}]

(* context/dev, llm_gateway and assistant                                  *)
DevContextRoutes ==
  [logged |-> {"context_dev_project", "context_dev_files", "context_dev_file",
               "context_dev_symbols", "context_dev_symbol", "context_dev_dependencies",
               "context_dev_git", "context_dev_tests"}]
DevBundleRoutes ==
  [logged |-> {"context_dev_bundle", "context_dev_status"}]
SuggestRoutes ==
  [logged |-> {"context_intelligence_suggest", "context_intelligence_relationships",
               "context_intelligence_error", "context_intelligence_test_failure",
               "context_intelligence_git", "context_intelligence_review"}]
PatchProposalRoutes ==
  [logged |-> {"context_intelligence_injection", "context_intelligence_budget",
               "context_intelligence_snapshot"},
   vetted |-> {"context_patch_proposal"}]
ConversationReads ==
  [logged |-> {"llm_providers", "llm_models", "llm_conversations", "llm_conversation_detail",
               "llm_tool_proposals"}]
ConversationRoutes ==
  [logged |-> {"llm_chat", "llm_chat_stream"},
   vetted |-> {"llm_conversation_create", "llm_message_append"}]
ToolProposalRoutes ==
  [vetted |-> {"llm_tool_proposal"}]
AssistantReads ==
  [logged |-> {"assistant_user_settings", "assistant_provider_status",
               "assistant_context_status", "assistant_provider_test", "assistant_chat"}]
AssistantRoutes ==
  [logged |-> {"assistant_chat_stream"},
   vetted |-> {"assistant_provider_config", "assistant_provider_forget"}]
PreferenceRoutes ==
  [vetted |-> {"assistant_settings_update"}]

Sections ==
  {SystemRoutes, ContextRoutes, RuntimeRoutes, TeamRoutes, InsightRoutes, SimulationRoutes,
   TrialRoutes, TimelineRoutes, LoopRoutes, ExecutionRoutes, ResultRoutes, FileRoutes,
   MemoryRoutes, DecisionRoutes, ToolRoutes, SessionRoutes, AgentRoutes, WorkflowRoutes,
   StageRoutes, GovernanceRoutes, GovernanceTimelineRoutes, JudgementRoutes, JudgedRoutes,
   ObservationRoutes, EvidenceRoutes, TrendRoutes, EvaluationRoutes, ImprovementRoutes,
   OrganizationRoutes, LearningRoutes, StrategyReads, StrategyRoutes, OrgGraphRoutes,
   DevContextRoutes, DevBundleRoutes, SuggestRoutes, PatchProposalRoutes, ConversationReads,
   ConversationRoutes, ToolProposalRoutes, AssistantReads, AssistantRoutes, PreferenceRoutes}

Served(way) == UNION {section[way] : section \in {s \in Sections : way \in DOMAIN s}}

Telling == Served("told")
Unlogged == Served("unlogged")
Reads == Served("logged") \cup Telling \cup Unlogged
Vetted == Served("vetted") \cup Served("guarded")
Previewed == Served("previewed") \cup Served("guarded")
Posted == Served("queued") \cup Vetted \cup Previewed
Direct == Served("direct")

-----------------------------------------------------------------------------
(* ACTION_LEVELS: what each action needs.                                  *)
ReadLevel ==
  {"health", "workspace_list", "project_tree", "file_read", "file_search", "memory_read",
   "memory_list", "context_project", "context_search", "session_read", "llm_chat",
   "llm_chat_stream", "assistant_user_settings", "assistant_provider_status",
   "assistant_provider_test", "assistant_context_status", "assistant_chat",
   "assistant_chat_stream", "model_route", "agent_status"}
WriteLevel ==
  {"file_create", "file_write", "patch_apply", "git_command", "memory_append",
   "memory_decision", "memory_init", "workflow_stage_approval", "git_commit", "test_run",
   "workflow_rollback", "session_create", "session_transition", "agent_create",
   "agent_transition", "agent_message", "workflow_agent_attach", "quality_gate_submit",
   "runtime_create", "task_create", "task_transition", "team_create", "code_index",
   "project_memory_append", "intelligence_memory_append", "intelligence_analyze",
   "intelligence_decision_create", "intelligence_observation_record",
   "intelligence_pattern_analyze", "intelligence_prediction_analyze",
   "intelligence_outcome_record", "intelligence_knowledge_append",
   "intelligence_evidence_bundle", "intelligence_evaluation_record",
   "intelligence_benchmark_run", "intelligence_knowledge_improvement",
   "intelligence_governance_evaluate", "intelligence_governance_review",
   "context_patch_proposal", "llm_conversation_create", "llm_message_append",
   "llm_tool_proposal", "assistant_provider_config", "assistant_provider_forget",
   "assistant_settings_update", "simulation_create", "simulation_analyze",
   "simulation_plan", "planning_memory_append", "execution_create", "execution_proposal",
   "execution_execute", "execution_memory_append", "execution_loop_create",
   "execution_loop_prepare", "execution_loop_verify", "execution_loop_rollback",
   "execution_loop_recover", "execution_dag_create", "execution_dag_advance",
   "engineering_graph_rebuild", "evolution_timeline_append", "benchmark_create",
   "benchmark_transition", "validation_create", "validation_transition",
   "validation_run_record", "demo_scenario_create", "replay_create", "artifact_export",
   "governance_debt_create", "governance_debt_transition", "governance_policy_evaluate",
   "governance_memory_append", "organization_entity_register",
   "organization_incident_create", "organization_decision_create",
   "organization_pattern_create", "organization_learning_scan", "organization_graph_sync",
   "organization_graph_snapshot_create", "organization_graph_snapshot_restore",
   "organization_strategy_create", "organization_strategy_evaluate",
   "organization_strategy_decision_create", "organization_strategy_decision_transition",
   "organization_memory_append"}
DestructiveLevel == {"file_delete", "shell_command", "system_config"}

(* level_for_action raises for an action that has none.                    *)
HasLevel(action) == action \in ReadLevel \cup WriteLevel \cup DestructiveLevel

-----------------------------------------------------------------------------
(* _execute_action: the actions it has a branch for, from top to bottom.   *)
IntelligenceBranches ==
  {"intelligence_observation_record", "intelligence_pattern_analyze",
   "intelligence_prediction_analyze", "intelligence_outcome_record",
   "intelligence_knowledge_append", "intelligence_evidence_bundle",
   "intelligence_evaluation_record", "intelligence_benchmark_run",
   "intelligence_knowledge_improvement", "intelligence_governance_evaluate"}
AssistantBranches ==
  {"context_patch_proposal", "llm_conversation_create", "llm_message_append",
   "llm_tool_proposal", "assistant_provider_config", "assistant_provider_forget",
   "assistant_settings_update", "intelligence_governance_review"}
WorkspaceBranches ==
  {"file_create", "file_write", "patch_apply", "memory_init", "memory_append",
   "memory_decision", "git_commit", "test_run", "workflow_rollback", "session_create",
   "session_transition", "agent_create", "agent_transition", "agent_message",
   "workflow_agent_attach", "quality_gate_submit", "runtime_create", "task_create",
   "task_transition", "team_create"}
ExecutionBranches ==
  {"code_index", "project_memory_append", "intelligence_memory_append",
   "planning_memory_append", "execution_memory_append", "execution_create",
   "execution_proposal", "execution_execute", "execution_loop_create",
   "execution_loop_prepare", "execution_loop_verify", "execution_loop_rollback",
   "execution_loop_recover", "execution_dag_create", "execution_dag_advance"}
RecordBranches ==
  {"engineering_graph_rebuild", "evolution_timeline_append", "benchmark_create",
   "benchmark_transition", "validation_create", "validation_transition",
   "validation_run_record", "demo_scenario_create", "replay_create", "artifact_export",
   "governance_debt_create", "governance_debt_transition", "governance_policy_evaluate",
   "governance_memory_append", "organization_entity_register",
   "organization_incident_create", "organization_decision_create",
   "organization_pattern_create"}
PlanningBranches ==
  {"organization_graph_sync", "organization_graph_snapshot_create",
   "organization_graph_snapshot_restore", "organization_strategy_create",
   "organization_strategy_evaluate", "organization_strategy_decision_create",
   "organization_strategy_decision_transition", "organization_memory_append",
   "organization_learning_scan", "simulation_create", "simulation_analyze",
   "simulation_plan", "intelligence_analyze", "intelligence_decision_create",
   "workflow_stage_approval"}

Executable ==
  IntelligenceBranches \cup AssistantBranches \cup WorkspaceBranches \cup ExecutionBranches
    \cup RecordBranches \cup PlanningBranches

(* Slip: the patch is taken for a patch proposal, which changes no file.   *)
UncapturedPatch == (IntelligenceBranches \cup AssistantBranches) \cup {"patch_apply"}

(* The records for which no rollback snapshot is captured.                 *)
Uncaptured == IntelligenceBranches \cup AssistantBranches

(* The actions that change files of the workspace.                         *)
WritesFiles ==
  {"file_create", "file_write", "patch_apply", "git_commit", "workflow_rollback",
   "execution_execute"}

(* The actions whose branch can raise what is not a BridgeError.           *)
Careless ==
  {"benchmark_transition", "validation_transition", "validation_create", "agent_message",
   "llm_message_append", "llm_tool_proposal", "organization_strategy_create",
   "organization_strategy_evaluate", "organization_strategy_decision_create",
   "organization_strategy_decision_transition"}

(* The actions whose branch queues a memory append of its own.             *)
Follows ==
  [simulation_plan |-> "planning_memory_append",
   execution_execute |-> "execution_memory_append",
   intelligence_decision_create |-> "intelligence_memory_append"]
=============================================================================
